---------------------------- MODULE Spec2Model ----------------------------
(***************************************************************************)
(* Bank queue discrete-event simulation: the event queue, the waiting      *)
(* line, tellers, the bank and the simulator of src/bank_simulation, and   *)
(* the prototype of src/full_sim.py with src/customer and src/simulation.  *)
(*                                                                         *)
(* Python objects live in stores indexed by reference (customers) or by    *)
(* index (tellers); lists are sequences; heapq's binary heap is modelled   *)
(* position by position (0-based positions, 1-based sequences).  Times are *)
(* integers.                                                               *)
(***************************************************************************)
EXTENDS Integers, Sequences, FiniteSets, TLC

VARIABLES
    customers,   \* store of bank_simulation Customer objects, by reference
    eq,          \* the EventQueue object: _heap, _sequence
    bq,          \* the BankQueue object: _heap, max_size, counters
    tellers,     \* the Teller objects, by teller_id
    bank,        \* the Bank object: is_open, counters
    trace,       \* EventQueue driver: the calls made so far, with their results
    now,         \* the clock of the driver of a Bank
    call,        \* the last call made by a driver: op, arg, ret
    drained,     \* customers returned by get_next_customer since the last add
    sim,         \* the Simulator object: config, current_time, _customer_id_counter
    stats,       \* the SimulationStatistics object of the Simulator
    pc,          \* "running" inside Simulator.run, else "idle"
    budget,      \* arrivals the random arrival process may still produce
    proto,       \* the module-level objects of the prototype full_sim
    process      \* a Python process of two Simulators: the random module, the instances

vars == <<customers, eq, bq, tellers, bank, trace, now, call, drained, sim, stats, pc, budget,
          proto, process>>

simVars == <<sim, stats, pc, budget>>

bankVars == <<customers, eq, bq, tellers, bank, now, drained>>


-----------------------------------------------------------------------------
(* Bounds *)

MaxTime == 2          \* times passed to the operations range over 0..MaxTime
MaxCalls == 6         \* calls made on one object by a driver
MaxCustomers == 3     \* Customer objects constructed by a driver

(* Program constants *)

None == -1            \* Python's None, for optional times, references, ids
Inf == 1000           \* float('inf'), the default patience
VIP == 1
ELDERLY == 2
APPOINTMENT == 3
REGULAR == 4

CustomerPriority == {VIP, ELDERLY, APPOINTMENT, REGULAR}
EventType == {"CUSTOMER_ARRIVAL", "SERVICE_START", "SERVICE_COMPLETE",
              "CUSTOMER_ABANDON", "BANK_OPEN", "BANK_CLOSE"}

Last(s) == s[Len(s)]
SeqSet(s) == {s[i] : i \in 1..Len(s)}

\* the list with the items f[1], ..., f[n] of a function f on 1..n, as a
\* sequence value: a function written [i \in 1..n |-> e] and then changed
\* with EXCEPT is not read as changed by Append, Head, SubSeq and \o in TLC
ListOf(f) == SubSeq(f, 1, Len(f))

-----------------------------------------------------------------------------
(* Ordering of the heap items *)

\* Event is a dataclass(order=True): compared as the tuple (time, sequence)
EventLtTimeOnly(a, b) == a.time < b.time
EventLt(a, b) ==
    \/ a.time < b.time
    \/ a.time = b.time /\ a.sequence < b.sequence

\* Customer.__lt__
CustomerLtArrivalOnly(a, b) == a.arrival_time < b.arrival_time
CustomerLt(a, b) ==
    IF a.priority # b.priority
    THEN a.priority < b.priority
    ELSE a.arrival_time < b.arrival_time

\* simulation.engine.Event.__lt__
simulation_Event_lt(a, b) == a.time < b.time

\* a < b for two heap items: events are held by value, customers by
\* reference into the store ctx.obj
ItemLt(ctx, a, b) ==
    IF ctx.cls = "Event"
    THEN EventLt(a, b)
    ELSE IF ctx.cls = "Customer"
    THEN CustomerLt(ctx.obj[a], ctx.obj[b])
    ELSE simulation_Event_lt(a, b)

EventCtx == [cls |-> "Event"]
CustomerCtx(store) == [cls |-> "Customer", obj |-> store]

-----------------------------------------------------------------------------
(* heapq *)

RECURSIVE heapq_siftdown_loop(_, _, _, _, _)
heapq_siftdown_loop(ctx, heap, newitem, startpos, pos) ==
    IF pos > startpos
    THEN LET parentpos == (pos - 1) \div 2
             parent == heap[parentpos + 1]
         IN IF ItemLt(ctx, newitem, parent)
            THEN heapq_siftdown_loop(ctx, [heap EXCEPT ![pos + 1] = parent],
                                     newitem, startpos, parentpos)
            ELSE [heap EXCEPT ![pos + 1] = newitem]
    ELSE [heap EXCEPT ![pos + 1] = newitem]

heapq_siftdown(ctx, heap, startpos, pos) ==
    heapq_siftdown_loop(ctx, heap, heap[pos + 1], startpos, pos)

RECURSIVE heapq_siftup_loop(_, _, _, _, _)
heapq_siftup_loop(ctx, heap, newitem, startpos, pos) ==
    LET endpos == Len(heap)
        leftpos == 2 * pos + 1
        rightpos == leftpos + 1
    IN IF leftpos < endpos
       THEN LET childpos ==
                    IF rightpos < endpos
                       /\ ~ItemLt(ctx, heap[leftpos + 1], heap[rightpos + 1])
                    THEN rightpos
                    ELSE leftpos
            IN heapq_siftup_loop(ctx, [heap EXCEPT ![pos + 1] = heap[childpos + 1]],
                                 newitem, startpos, childpos)
       ELSE heapq_siftdown(ctx, [heap EXCEPT ![pos + 1] = newitem], startpos, pos)

heapq_siftup(ctx, heap, pos) ==
    heapq_siftup_loop(ctx, heap, heap[pos + 1], pos, pos)

heapq_heappush(ctx, heap, item) ==
    heapq_siftdown(ctx, Append(heap, item), 0, Len(heap))

\* the heap after heappop; the returned item is heap[1]
heapq_heappop(ctx, heap) ==
    LET lastelt == Last(heap)
        rest == SubSeq(heap, 1, Len(heap) - 1)
    IN IF rest = <<>>
       THEN rest
       ELSE heapq_siftup(ctx, [rest EXCEPT ![1] = lastelt], 0)

RECURSIVE heapq_heapify_loop(_, _, _)
heapq_heapify_loop(ctx, heap, i) ==
    IF i < 0
    THEN heap
    ELSE heapq_heapify_loop(ctx, heapq_siftup(ctx, heap, i), i - 1)

heapq_heapify(ctx, heap) ==
    heapq_heapify_loop(ctx, heap, (Len(heap) \div 2) - 1)

-----------------------------------------------------------------------------
(* EventQueue *)

EventQueue_init == [heap |-> <<>>, sequence |-> 0]

NewEvent(q, time, event_type, data) ==
    [time |-> time, sequence |-> q.sequence, event_type |-> event_type, data |-> data]

EventQueue_schedule_NoIncrement(q, time, event_type, data) ==
    [q EXCEPT !.heap = heapq_heappush(EventCtx, q.heap, NewEvent(q, time, event_type, data))]

EventQueue_schedule(q, time, event_type, data) ==
    [heap |-> heapq_heappush(EventCtx, q.heap, NewEvent(q, time, event_type, data)),
     sequence |-> q.sequence + 1]

\* pop returns heap[1] when the heap is non-empty, else None
EventQueue_pop(q) ==
    IF q.heap # <<>>
    THEN [q EXCEPT !.heap = heapq_heappop(EventCtx, q.heap)]
    ELSE q

EventQueue_is_empty(q) == Len(q.heap) = 0

-----------------------------------------------------------------------------
(* Customer *)

Customer_init(customer_id, arrival_time, priority, service_time_required, patience) ==
    [customer_id |-> customer_id, arrival_time |-> arrival_time,
     priority |-> priority, service_time_required |-> service_time_required,
     patience |-> patience, service_start_time |-> None,
     service_end_time |-> None, abandoned |-> FALSE]

Customer_should_abandon_Ge(c, current_time) ==
    IF c.service_start_time # None
    THEN FALSE
    ELSE current_time - c.arrival_time >= c.patience

Customer_should_abandon(c, current_time) ==
    IF c.service_start_time # None
    THEN FALSE
    ELSE LET wait_time == current_time - c.arrival_time
         IN wait_time > c.patience

-----------------------------------------------------------------------------
(* BankQueue.  Each operation gives the queue (q), the customer store      *)
(* (store) and the value returned (ret) after the call.                    *)

BankQueue_init(max_size) ==
    [heap |-> <<>>, max_size |-> max_size,
     total_customers_entered |-> 0, total_customers_abandoned |-> 0]

BankQueue_add_customer_OffByOne(q, store, ref) ==
    IF q.max_size # None /\ Len(q.heap) > q.max_size
    THEN [q |-> q, ret |-> FALSE]
    ELSE [q |-> [q EXCEPT !.heap = heapq_heappush(CustomerCtx(store), q.heap, ref),
                          !.total_customers_entered = @ + 1],
          ret |-> TRUE]

BankQueue_add_customer(q, store, ref) ==
    IF q.max_size # None /\ Len(q.heap) >= q.max_size
    THEN [q |-> q, ret |-> FALSE]
    ELSE [q |-> [q EXCEPT !.heap = heapq_heappush(CustomerCtx(store), q.heap, ref),
                          !.total_customers_entered = @ + 1],
          ret |-> TRUE]

\* as BankQueue_get_next_customer, but the customer returned stays in the
\* line
BankQueue_get_next_customer_Peek(q, store) ==
    IF q.heap # <<>>
    THEN [q |-> q, ret |-> q.heap[1]]
    ELSE [q |-> q, ret |-> None]

BankQueue_get_next_customer(q, store) ==
    IF q.heap # <<>>
    THEN [q |-> [q EXCEPT !.heap = heapq_heappop(CustomerCtx(store), q.heap)],
          ret |-> q.heap[1]]
    ELSE [q |-> q, ret |-> None]

\* as BankQueue_remove_customer, but only the head of the line is removed
BankQueue_remove_customer_HeadOnly(q, store, ref) ==
    IF q.heap # <<>> /\ q.heap[1] = ref
    THEN [q |-> [q EXCEPT !.heap = heapq_heapify(CustomerCtx(store), Tail(q.heap))],
          ret |-> TRUE]
    ELSE [q |-> q, ret |-> FALSE]

\* list.remove takes out the first element that is the object or equals it
\* (dataclass __eq__: all fields equal); ValueError when there is none
BankQueue_remove_customer(q, store, ref) ==
    LET hits == {i \in 1..Len(q.heap) : q.heap[i] = ref \/ store[q.heap[i]] = store[ref]}
    IN IF hits = {}
       THEN [q |-> q, ret |-> FALSE]
       ELSE LET i == CHOOSE k \in hits : \A m \in hits : k <= m
                removed == SubSeq(q.heap, 1, i - 1) \o SubSeq(q.heap, i + 1, Len(q.heap))
            IN [q |-> [q EXCEPT !.heap = heapq_heapify(CustomerCtx(store), removed)],
                ret |-> TRUE]

BankQueue_process_abandonments_MarkAll(q, store, current_time) ==
    LET leaves(ref) == Customer_should_abandon(store[ref], current_time)
        abandoned_customers == SelectSeq(q.heap, leaves)
        remaining_customers == SelectSeq(q.heap, LAMBDA ref : ~leaves(ref))
    IN [q |-> [q EXCEPT !.heap = heapq_heapify(CustomerCtx(store), remaining_customers),
                        !.total_customers_abandoned = @ + Len(abandoned_customers)],
        store |-> ListOf([ref \in DOMAIN store |->
                             IF ref \in SeqSet(q.heap)
                             THEN [store[ref] EXCEPT !.abandoned = TRUE]
                             ELSE store[ref]]),
        ret |-> abandoned_customers]

BankQueue_process_abandonments(q, store, current_time) ==
    LET leaves(ref) == Customer_should_abandon(store[ref], current_time)
        abandoned_customers == SelectSeq(q.heap, leaves)
        remaining_customers == SelectSeq(q.heap, LAMBDA ref : ~leaves(ref))
    IN [q |-> [q EXCEPT !.heap = heapq_heapify(CustomerCtx(store), remaining_customers),
                        !.total_customers_abandoned = @ + Len(abandoned_customers)],
        store |-> ListOf([ref \in DOMAIN store |->
                             IF ref \in SeqSet(abandoned_customers)
                             THEN [store[ref] EXCEPT !.abandoned = TRUE]
                             ELSE store[ref]]),
        ret |-> abandoned_customers]

BankQueue_get_queue_length(q) == Len(q.heap)

-----------------------------------------------------------------------------
(* Teller.  Each operation gives the teller (teller), the customer store   *)
(* (store), whether ValueError was raised (raised) and the value returned  *)
(* (ret) after the call.                                                   *)

Teller_init(teller_id, efficiency) ==
    [teller_id |-> teller_id, efficiency |-> efficiency,
     current_customer |-> None, customers_served |-> <<>>,
     total_busy_time |-> 0, idle_since |-> 0]

Teller_is_available(t) == t.current_customer = None

\* as Teller_calculate_service_time, with the efficiency multiplied in
Teller_calculate_service_time_Times(t, c) == c.service_time_required * t.efficiency

\* service_time_required / efficiency; the service times and efficiencies
\* used divide exactly
Teller_calculate_service_time(t, c) == c.service_time_required \div t.efficiency

Teller_start_service_Unchecked(t, store, ref, current_time) ==
    [teller |-> [t EXCEPT !.current_customer = ref, !.idle_since = None],
     store |-> [store EXCEPT ![ref].service_start_time = current_time],
     raised |-> ~Teller_is_available(t),
     ret |-> current_time + Teller_calculate_service_time(t, store[ref])]

Teller_start_service(t, store, ref, current_time) ==
    IF ~Teller_is_available(t)
    THEN [teller |-> t, store |-> store, raised |-> TRUE, ret |-> None]
    ELSE [teller |-> [t EXCEPT !.current_customer = ref,
                               !.idle_since = IF @ # None THEN None ELSE @],
          store |-> [store EXCEPT ![ref].service_start_time = current_time],
          raised |-> FALSE,
          ret |-> current_time + Teller_calculate_service_time(t, store[ref])]

Teller_complete_service_IdleStamped(t, store, current_time) ==
    IF t.current_customer = None
    THEN [teller |-> [t EXCEPT !.idle_since = current_time],
          store |-> store, raised |-> TRUE, ret |-> None]
    ELSE LET customer == t.current_customer
             service_time == current_time - store[customer].service_start_time
         IN [teller |-> [t EXCEPT !.total_busy_time = @ + service_time,
                                  !.customers_served = Append(@, customer),
                                  !.current_customer = None,
                                  !.idle_since = current_time],
             store |-> [store EXCEPT ![customer].service_end_time = current_time],
             raised |-> FALSE,
             ret |-> customer]

Teller_complete_service(t, store, current_time) ==
    IF t.current_customer = None
    THEN [teller |-> t, store |-> store, raised |-> TRUE, ret |-> None]
    ELSE LET customer == t.current_customer
             service_time == current_time - store[customer].service_start_time
         IN [teller |-> [t EXCEPT !.total_busy_time = @ + service_time,
                                  !.customers_served = Append(@, customer),
                                  !.current_customer = None,
                                  !.idle_since = current_time],
             store |-> [store EXCEPT ![customer].service_end_time = current_time],
             raised |-> FALSE,
             ret |-> customer]

\* Teller.get_utilization, as the fraction num / den
Teller_get_utilization(t, total_time) ==
    IF total_time <= 0
    THEN [num |-> 0, den |-> 1]
    ELSE IF t.total_busy_time >= total_time
    THEN [num |-> 1, den |-> 1]
    ELSE [num |-> t.total_busy_time, den |-> total_time]

-----------------------------------------------------------------------------
(* Bank.  The bank object (b) holds is_open and its counters; its tellers  *)
(* (ts, a sequence, teller_id i at position i + 1) and its queue (q) are   *)
(* passed along.                                                           *)

Bank_init == [is_open |-> FALSE, total_customers_arrived |-> 0, customers_turned_away |-> 0]

Bank_open_bank(b, ts, current_time) ==
    [b |-> [b EXCEPT !.is_open = TRUE],
     ts |-> ListOf([i \in DOMAIN ts |-> [ts[i] EXCEPT !.idle_since = current_time]])]

Bank_close_bank(b) == [b EXCEPT !.is_open = FALSE]

Bank_customer_arrives_ClosedUncounted(b, q, store, ref) ==
    IF ~b.is_open
    THEN [b |-> [b EXCEPT !.total_customers_arrived = @ + 1], q |-> q, ret |-> FALSE]
    ELSE LET r == BankQueue_add_customer(q, store, ref)
         IN [b |-> [b EXCEPT !.total_customers_arrived = @ + 1,
                             !.customers_turned_away = IF r.ret THEN @ ELSE @ + 1],
             q |-> r.q, ret |-> r.ret]

Bank_customer_arrives(b, q, store, ref) ==
    LET b1 == [b EXCEPT !.total_customers_arrived = @ + 1]
    IN IF ~b1.is_open
       THEN [b |-> [b1 EXCEPT !.customers_turned_away = @ + 1], q |-> q, ret |-> FALSE]
       ELSE LET r == BankQueue_add_customer(q, store, ref)
            IN IF ~r.ret
               THEN [b |-> [b1 EXCEPT !.customers_turned_away = @ + 1],
                     q |-> r.q, ret |-> FALSE]
               ELSE [b |-> b1, q |-> r.q, ret |-> TRUE]

\* as Bank_get_available_teller, taking the first available teller of the
\* list
Bank_get_available_teller_First(ts) ==
    LET available_tellers == {i \in DOMAIN ts : Teller_is_available(ts[i])}
    IN IF available_tellers = {}
       THEN None
       ELSE CHOOSE i \in available_tellers : \A j \in available_tellers : i <= j

\* min(available_tellers, key=idle_since or inf): the first teller of the
\* list among those with the least key; the position in ts, or None
Bank_get_available_teller(ts) ==
    LET available_tellers == {i \in DOMAIN ts : Teller_is_available(ts[i])}
        key(i) == IF ts[i].idle_since # None THEN ts[i].idle_since ELSE Inf
    IN IF available_tellers = {}
       THEN None
       ELSE CHOOSE i \in available_tellers :
                \A j \in available_tellers :
                    key(i) < key(j) \/ (key(i) = key(j) /\ i <= j)

\* as Bank_try_assign_customer_to_teller, but the first teller takes the
\* next customer of the line whether it is serving or not
Bank_try_assign_customer_to_teller_Preempting(ts, q, store, current_time) ==
    LET i == IF ts = <<>> THEN None ELSE 1
    IN IF i = None
       THEN [ts |-> ts, q |-> q, store |-> store, assigned |-> FALSE]
       ELSE LET g == BankQueue_get_next_customer(q, store)
            IN IF g.ret = None
               THEN [ts |-> ts, q |-> q, store |-> store, assigned |-> FALSE]
               ELSE LET s == Teller_start_service_Unchecked(ts[i], store, g.ret,
                                                            current_time)
                    IN [ts |-> [ts EXCEPT ![i] = s.teller], q |-> g.q,
                        store |-> s.store, assigned |-> TRUE,
                        teller |-> i, customer |-> g.ret, service_end_time |-> s.ret]
Bank_try_assign_customer_to_teller(ts, q, store, current_time) ==
    LET i == Bank_get_available_teller(ts)
    IN IF i = None
       THEN [ts |-> ts, q |-> q, store |-> store, assigned |-> FALSE]
       ELSE LET g == BankQueue_get_next_customer(q, store)
            IN IF g.ret = None
               THEN [ts |-> ts, q |-> q, store |-> store, assigned |-> FALSE]
               ELSE LET s == Teller_start_service(ts[i], store, g.ret, current_time)
                    IN [ts |-> [ts EXCEPT ![i] = s.teller], q |-> g.q,
                        store |-> s.store, assigned |-> TRUE,
                        teller |-> i, customer |-> g.ret, service_end_time |-> s.ret]

\* as Bank_complete_service, with the busy time counted from the arrival
Bank_complete_service_FromArrival(ts, i, store, current_time) ==
    LET r == Teller_complete_service(ts[i], store, current_time)
    IN IF r.raised
       THEN r
       ELSE [r EXCEPT !.teller.total_busy_time =
                          ts[i].total_busy_time + current_time - store[r.ret].arrival_time]

Bank_complete_service(ts, i, store, current_time) ==
    Teller_complete_service(ts[i], store, current_time)

\* as Bank_process_abandonments, but the customers that abandon stay in
\* the line
Bank_process_abandonments_KeepsLine(q, store, current_time) ==
    [BankQueue_process_abandonments(q, store, current_time) EXCEPT !.q = q]
Bank_process_abandonments(q, store, current_time) ==
    BankQueue_process_abandonments(q, store, current_time)

Bank_get_queue_length(q) == BankQueue_get_queue_length(q)

-----------------------------------------------------------------------------
(* SimulationStatistics *)

SimulationStatistics_init ==
    [served_customers |-> <<>>, abandoned_customers |-> <<>>,
     queue_length_samples |-> <<>>]

SimulationStatistics_record_served_customer(st, ref) ==
    [st EXCEPT !.served_customers = Append(@, ref)]

SimulationStatistics_record_abandoned_customer(st, ref) ==
    [st EXCEPT !.abandoned_customers = Append(@, ref)]

SimulationStatistics_record_queue_length(st, time, length) ==
    [st EXCEPT !.queue_length_samples = Append(@, <<time, length>>)]

RECURSIVE SumSeq(_)
SumSeq(s) == IF s = <<>> THEN 0 ELSE s[1] + SumSeq(Tail(s))

\* a quotient of two integers, as the float the division gives
Quotient(num, den) == [num |-> num, den |-> den]

Zero == Quotient(0, 1)

SameQuotient(x, y) == x.num * y.den = y.num * x.den

\* the arithmetic mean of the sampled lengths
SimulationStatistics_get_average_queue_length_Mean(st) ==
    LET samples == st.queue_length_samples
    IN IF samples = <<>> THEN Zero
       ELSE Quotient(SumSeq([i \in 1..Len(samples) |-> samples[i][2]]), Len(samples))

\* the loop of get_average_queue_length over range(len(samples) - 1): the
\* sums total_weighted_length (weighted) and total_time (time) after turn i
RECURSIVE AverageQueueLengthLoop(_, _)
AverageQueueLengthLoop(samples, i) ==
    IF i = 0 THEN [weighted |-> 0, time |-> 0]
    ELSE LET before == AverageQueueLengthLoop(samples, i - 1)
             duration == samples[i + 1][1] - samples[i][1]
         IN [weighted |-> before.weighted + samples[i][2] * duration,
             time |-> before.time + duration]

SimulationStatistics_get_average_queue_length(st) ==
    LET samples == st.queue_length_samples
    IN IF samples = <<>> THEN Zero
       ELSE LET sums == AverageQueueLengthLoop(samples, Len(samples) - 1)
            IN IF sums.time > 0 THEN Quotient(sums.weighted, sums.time) ELSE Zero

\* as Customer_get_wait_time, measured to the end of the service
Customer_get_wait_time_ToEnd(c) == c.service_end_time - c.arrival_time

\* Customer.get_wait_time of a customer whose service_start_time is set
Customer_get_wait_time(c) == c.service_start_time - c.arrival_time

\* SimulationStatistics.get_average_wait_time, as the fraction num / den
SimulationStatistics_get_average_wait_time(st, store) ==
    LET timed == SelectSeq(st.served_customers,
                           LAMBDA c : store[c].service_start_time # None)
        wait_times == [k \in 1..Len(timed) |-> Customer_get_wait_time(store[timed[k]])]
    IN IF wait_times # <<>>
       THEN [num |-> SumSeq(wait_times), den |-> Len(wait_times)]
       ELSE [num |-> 0, den |-> 1]

-----------------------------------------------------------------------------
(* Simulator.  A world w gathers the objects a Simulator owns: customers,  *)
(* eq (event_queue), bq (bank.queue), tellers, bank, stats (statistics)    *)
(* and sim (config, current_time, _customer_id_counter).  The values drawn *)
(* from the random module are parameters of the operations.                *)

SimulationConfig(efficiencies, duration, capacity) ==
    [num_tellers |-> Len(efficiencies), teller_efficiencies |-> efficiencies,
     simulation_duration |-> duration, queue_capacity |-> capacity]

\* Simulator.__init__
Simulator_init(config) ==
    [customers |-> <<>>,
     eq |-> EventQueue_init,
     bq |-> BankQueue_init(config.queue_capacity),
     tellers |-> ListOf([i \in 1..config.num_tellers |->
                            Teller_init(i - 1, config.teller_efficiencies[i])]),
     bank |-> Bank_init,
     stats |-> SimulationStatistics_init,
     sim |-> [config |-> config, current_time |-> 0, customer_id_counter |-> 0]]

Simulator_record_queue_length(w) ==
    [w EXCEPT !.stats = SimulationStatistics_record_queue_length(
                            @, w.sim.current_time, Bank_get_queue_length(w.bq))]

\* next_arrival_time = current_time + interval, scheduled when it lies
\* before simulation_duration
Simulator_schedule_next_arrival(w, interval) ==
    LET next_arrival_time == w.sim.current_time + interval
    IN IF next_arrival_time < w.sim.config.simulation_duration
       THEN [w EXCEPT !.eq = EventQueue_schedule(@, next_arrival_time,
                                                 "CUSTOMER_ARRIVAL", None)]
       ELSE w

\* the new Customer object is the last of the store
Simulator_create_customer(w, priority, service_time, patience) ==
    LET id == w.sim.customer_id_counter + 1
    IN [w EXCEPT !.sim.customer_id_counter = id,
                 !.customers = Append(@, Customer_init(id, w.sim.current_time, priority,
                                                       service_time, patience))]

\* as Simulator_try_start_service, with an if in place of the while
Simulator_try_start_service_Once(w) ==
    LET a == Bank_try_assign_customer_to_teller(w.tellers, w.bq, w.customers,
                                                w.sim.current_time)
    IN IF ~a.assigned
       THEN w
       ELSE Simulator_record_queue_length(
                [w EXCEPT !.tellers = a.ts, !.bq = a.q, !.customers = a.store,
                          !.eq = EventQueue_schedule(@, a.service_end_time,
                                     "SERVICE_COMPLETE",
                                     w.tellers[a.teller].teller_id)])

RECURSIVE Simulator_try_start_service(_)
Simulator_try_start_service(w) ==
    LET a == Bank_try_assign_customer_to_teller(w.tellers, w.bq, w.customers,
                                                w.sim.current_time)
    IN IF ~a.assigned
       THEN w
       ELSE Simulator_try_start_service(
                Simulator_record_queue_length(
                    [w EXCEPT !.tellers = a.ts, !.bq = a.q, !.customers = a.store,
                              !.eq = EventQueue_schedule(@, a.service_end_time,
                                         "SERVICE_COMPLETE",
                                         w.tellers[a.teller].teller_id)]))

\* as Simulator_handle_customer_arrival, without the _try_start_service
\* after an accepted arrival
Simulator_handle_customer_arrival_NoStart(w, priority, service_time, patience, interval) ==
    LET w1 == Simulator_create_customer(w, priority, service_time, patience)
        customer == Len(w1.customers)
        r == Bank_customer_arrives(w1.bank, w1.bq, w1.customers, customer)
        w2 == [w1 EXCEPT !.bank = r.b, !.bq = r.q]
        w3 == IF r.ret
              THEN Simulator_record_queue_length(w2)
              ELSE w2
    IN Simulator_schedule_next_arrival(w3, interval)
Simulator_handle_customer_arrival(w, priority, service_time, patience, interval) ==
    LET w1 == Simulator_create_customer(w, priority, service_time, patience)
        customer == Len(w1.customers)
        r == Bank_customer_arrives(w1.bank, w1.bq, w1.customers, customer)
        w2 == [w1 EXCEPT !.bank = r.b, !.bq = r.q]
        w3 == IF r.ret
              THEN Simulator_try_start_service(Simulator_record_queue_length(w2))
              ELSE w2
    IN Simulator_schedule_next_arrival(w3, interval)

\* as Simulator_handle_service_complete, without the trailing
\* _try_start_service
Simulator_handle_service_complete_NoRestart(w, event) ==
    LET teller_id == event.data
        r == Bank_complete_service(w.tellers, teller_id + 1, w.customers,
                                   w.sim.current_time)
    IN IF r.raised
       THEN [w |-> w, raised |-> TRUE]
       ELSE [w |-> [w EXCEPT !.tellers[teller_id + 1] = r.teller,
                             !.customers = r.store,
                             !.stats = SimulationStatistics_record_served_customer(
                                           @, r.ret)],
             raised |-> FALSE]
\* raised: Teller.complete_service raised ValueError, which leaves the handler
Simulator_handle_service_complete(w, event) ==
    LET teller_id == event.data
        r == Bank_complete_service(w.tellers, teller_id + 1, w.customers,
                                   w.sim.current_time)
    IN IF r.raised
       THEN [w |-> w, raised |-> TRUE]
       ELSE [w |-> Simulator_try_start_service(
                       [w EXCEPT !.tellers[teller_id + 1] = r.teller,
                                 !.customers = r.store,
                                 !.stats = SimulationStatistics_record_served_customer(
                                               @, r.ret)]),
             raised |-> FALSE]

RECURSIVE RecordAbandoned(_, _)
RecordAbandoned(st, abandoned) ==
    IF abandoned = <<>>
    THEN st
    ELSE RecordAbandoned(SimulationStatistics_record_abandoned_customer(st, Head(abandoned)),
                         Tail(abandoned))

\* as Simulator_handle_abandonment_check, without the record in the
\* statistics
Simulator_handle_abandonment_check_Unrecorded(w) ==
    LET r == Bank_process_abandonments(w.bq, w.customers, w.sim.current_time)
    IN [w EXCEPT !.bq = r.q, !.customers = r.store]

Simulator_handle_abandonment_check(w) ==
    LET r == Bank_process_abandonments(w.bq, w.customers, w.sim.current_time)
        w1 == [w EXCEPT !.bq = r.q, !.customers = r.store,
                        !.stats = RecordAbandoned(@, r.ret)]
    IN IF r.ret # <<>>
       THEN Simulator_record_queue_length(w1)
       ELSE w1

Simulator_initialize(w, interval) ==
    LET o == Bank_open_bank(w.bank, w.tellers, 0)
        w1 == [w EXCEPT !.sim.current_time = 0,
                        !.eq = EventQueue_init,
                        !.stats = SimulationStatistics_init,
                        !.sim.customer_id_counter = 0,
                        !.bank = o.b,
                        !.tellers = o.ts]
        w2 == Simulator_schedule_next_arrival(w1, interval)
    IN [w2 EXCEPT !.eq = EventQueue_schedule(@, w.sim.config.simulation_duration,
                                             "BANK_CLOSE", None)]

\* as Simulator_begin_event, without the scan of the line
Simulator_begin_event_NoScan(w) ==
    LET event == w.eq.heap[1]
    IN [w EXCEPT !.eq = EventQueue_pop(@), !.sim.current_time = event.time]

\* the start of one turn of the loop of run, and of step: the event is
\* popped, the clock set to its time and the line scanned for abandonments
Simulator_begin_event(w) ==
    LET event == w.eq.heap[1]
    IN Simulator_handle_abandonment_check(
           [w EXCEPT !.eq = EventQueue_pop(@), !.sim.current_time = event.time])

\* The random module.  Its state r is the generator state x and gauss_next
\* (<<>> for None).  A linear congruential generator of period
\* RandomModulus stands for the Mersenne Twister: seed(a) fixes the state,
\* every call of random() advances it, and the numbers drawn are quantised.
RandomModulus == 16

random_seed(a) == [x |-> a % RandomModulus, gauss_next |-> <<>>]

random_random(r) ==
    LET x == (5 * r.x + 3) % RandomModulus
    IN [r |-> [r EXCEPT !.x = x], ret |-> x]

\* random.gauss, as the deviation from mu: two calls of random() give this
\* deviation and the next one, kept in gauss_next
random_gauss(r) ==
    IF r.gauss_next # <<>>
    THEN [r |-> [r EXCEPT !.gauss_next = <<>>], ret |-> r.gauss_next[1]]
    ELSE LET a == random_random(r)
             b == random_random(a.r)
         IN [r |-> [b.r EXCEPT !.gauss_next = <<((a.ret + 2 * b.ret) % 3) - 1>>],
             ret |-> ((a.ret + b.ret) % 3) - 1]

random_expovariate(r) ==
    LET a == random_random(r)
    IN [r |-> a.r, ret |-> 1 + a.ret \div 6]

\* _generate_priority with the default priority_distribution: VIP below
\* 0.05, ELDERLY below 0.20, APPOINTMENT below 0.30, else REGULAR
Simulator_generate_priority(r) ==
    LET a == random_random(r)
    IN [r |-> a.r,
        ret |-> IF a.ret = 0 THEN VIP
                ELSE IF a.ret <= 3 THEN ELDERLY
                ELSE IF a.ret = 4 THEN APPOINTMENT
                ELSE REGULAR]

Max(a, b) == IF a >= b THEN a ELSE b

Simulator_generate_service_time(config, r) ==
    LET g == random_gauss(r)
    IN [r |-> g.r, ret |-> Max(1, config.mean_service_time + g.ret)]

Simulator_generate_patience(config, r) ==
    LET g == random_gauss(r)
    IN [r |-> g.r, ret |-> Max(1, config.mean_patience + g.ret)]

Simulator_generate_arrival_interval(r) == random_expovariate(r)

\* Simulator(config) with config.random_seed set: the module is seeded
Simulator_init_seeded(config, r) ==
    [w |-> Simulator_init(config), r |-> random_seed(config.random_seed)]

\* the handlers with their draws taken from the random module, in the
\* order in which the code draws them
Simulator_initialize_drawn(w, r) ==
    LET i == Simulator_generate_arrival_interval(r)
    IN [w |-> Simulator_initialize(w, i.ret), r |-> i.r]

Simulator_handle_customer_arrival_drawn(w, r) ==
    LET p == Simulator_generate_priority(r)
        s == Simulator_generate_service_time(w.sim.config, p.r)
        t == Simulator_generate_patience(w.sim.config, s.r)
        i == Simulator_generate_arrival_interval(t.r)
    IN [w |-> Simulator_handle_customer_arrival(w, p.ret, s.ret, t.ret, i.ret),
        r |-> i.r]

\* Simulator(config) for any config: teller_efficiencies is <<>> for None
\* or []; a list shorter than num_tellers makes efficiencies[i] raise
\* IndexError, a longer one is cut; nothing else of config is looked at
Simulator_construct(config) ==
    LET efficiencies == IF config.teller_efficiencies # <<>>
                        THEN config.teller_efficiencies
                        ELSE [i \in 1..config.num_tellers |-> 1]
    IN IF Len(efficiencies) < config.num_tellers
       THEN [raised |-> TRUE]
       ELSE [raised |-> FALSE,
             w |-> [Simulator_init([config EXCEPT !.teller_efficiencies =
                                       SubSeq(efficiencies, 1, config.num_tellers)])
                    EXCEPT !.sim.config = config]]

\* the priorities _generate_priority can return with the distribution dist,
\* a sequence of <<priority, probability in tenths>> in the order of the
\* dict: an entry is returned for r in [cumulative before, cumulative
\* after), r < 1; REGULAR is returned past the last entry
Simulator_generate_priority_any(dist) ==
    LET before(k) == SumSeq([j \in 1..(k - 1) |-> dist[j][2]])
    IN {dist[k][1] : k \in {j \in 1..Len(dist) : dist[j][2] > 0 /\ before(j) < 10}}
       \cup (IF before(Len(dist) + 1) < 10 THEN {REGULAR} ELSE {})

-----------------------------------------------------------------------------
(* The prototype: src/full_sim.py over src/customer and src/simulation.     *)
(* Its times are counted in quarters of a minute.  A world w gathers the    *)
(* module-level objects of full_sim: the engine (current_time, heap), the   *)
(* CustomerQueue (queue), the Metrics (metrics), the tellers, the Customer  *)
(* objects by id (customers) and switched_once; w.pops lists the calls of   *)
(* pop_next that returned a customer while the current event is handled,    *)
(* each with the line as it was before the call.                            *)

SWITCH_AFTER == 3       \* 0.75 minutes
PATIENCE_BONUS == 3     \* 0.75 minutes
PATIENCE_MIN == 2       \* 0.5 minutes
PATIENCE_MAX == 8       \* 2.0 minutes
SERVICE_RATES == <<12, 9, 5>>    \* FAST, MEDIUM, SLOW, in tenths

SimulationEventCtx == [cls |-> "simulation.Event"]

simulation_Event(time, action, cust, teller) ==
    [time |-> time, action |-> action, cust |-> cust, teller |-> teller]

SimulationEngine_schedule(w, time, action, cust, teller) ==
    [w EXCEPT !.heap = heapq_heappush(SimulationEventCtx, @,
                           simulation_Event(time, action, cust, teller))]

CustomerQueue_init == [vip |-> <<>>, elderly |-> <<>>, appointments |-> <<>>, regular |-> <<>>]

CustomerQueue_add_customer(q, kind, cust) ==
    IF kind = "VIP" THEN [q EXCEPT !.vip = Append(@, cust)]
    ELSE IF kind = "ELDERLY" THEN [q EXCEPT !.elderly = Append(@, cust)]
    ELSE IF kind = "APPOINTMENT" THEN [q EXCEPT !.appointments = Append(@, cust)]
    ELSE [q EXCEPT !.regular = Append(@, cust)]

\* deque.remove: the first occurrence
DequeRemove(dq, cust) ==
    LET i == CHOOSE k \in 1..Len(dq) : dq[k] = cust /\ \A j \in 1..(k - 1) : dq[j] # cust
    IN SubSeq(dq, 1, i - 1) \o SubSeq(dq, i + 1, Len(dq))

CustomerQueue_remove_customer(q, cust) ==
    IF cust \in SeqSet(q.vip)
    THEN [q |-> [q EXCEPT !.vip = DequeRemove(@, cust)], ret |-> TRUE]
    ELSE IF cust \in SeqSet(q.elderly)
    THEN [q |-> [q EXCEPT !.elderly = DequeRemove(@, cust)], ret |-> TRUE]
    ELSE IF cust \in SeqSet(q.appointments)
    THEN [q |-> [q EXCEPT !.appointments = DequeRemove(@, cust)], ret |-> TRUE]
    ELSE IF cust \in SeqSet(q.regular)
    THEN [q |-> [q EXCEPT !.regular = DequeRemove(@, cust)], ret |-> TRUE]
    ELSE [q |-> q, ret |-> FALSE]

CustomerQueue_pop_next(q) ==
    IF q.vip # <<>>
    THEN [q |-> [q EXCEPT !.vip = Tail(@)], ret |-> Head(q.vip)]
    ELSE IF q.elderly # <<>>
    THEN [q |-> [q EXCEPT !.elderly = Tail(@)], ret |-> Head(q.elderly)]
    ELSE IF q.appointments # <<>>
    THEN [q |-> [q EXCEPT !.appointments = Tail(@)], ret |-> Head(q.appointments)]
    ELSE IF q.regular # <<>>
    THEN [q |-> [q EXCEPT !.regular = Tail(@)], ret |-> Head(q.regular)]
    ELSE [q |-> q, ret |-> None]

CustomerQueue_len(q) == Len(q.vip) + Len(q.elderly) + Len(q.appointments) + Len(q.regular)

prototype_Customer(id, kind, arrival_time, patience) ==
    [id |-> id, kind |-> kind, arrival_time |-> arrival_time, patience |-> patience,
     service_start |-> None, service_end |-> None, abandoned |-> FALSE]

simulation_Teller_init(id, service_rate) ==
    [id |-> id, service_rate |-> service_rate, is_busy |-> FALSE, busy_until |-> 0,
     total_busy_time |-> 0, customers_served |-> 0]

\* service_time is the value drawn from random.expovariate
simulation_Teller_start_service(t, current_time, service_time) ==
    [t EXCEPT !.is_busy = TRUE,
              !.total_busy_time = @ + service_time,
              !.busy_until = current_time + service_time]

simulation_Teller_finish_service(t) == [t EXCEPT !.is_busy = FALSE]

Metrics_init == [wait_times |-> <<>>, abandoned |-> 0, total_arrivals |-> 0, queue_lengths |-> <<>>]

\* the tellers after the call (ts) and the positions of the free ones, in
\* the order of the list (free)
TellerAssignmentSystem_get_free_tellers(ts, current_time) ==
    LET isFree(i) == ~ts[i].is_busy \/ ts[i].busy_until <= current_time
    IN [ts |-> ListOf([i \in 1..Len(ts) |->
                          IF isFree(i) THEN [ts[i] EXCEPT !.is_busy = FALSE] ELSE ts[i]]),
        free |-> SelectSeq([i \in 1..Len(ts) |-> i], isFree)]

\* max(list, key): the first element whose key is maximal
FirstMax(ts, free) ==
    free[CHOOSE k \in 1..Len(free) :
            /\ \A j \in 1..Len(free) : ts[free[j]].service_rate <= ts[free[k]].service_rate
            /\ \A j \in 1..(k - 1) : ts[free[j]].service_rate < ts[free[k]].service_rate]

\* min(list, key) on the tuple (total_busy_time, service_rate): the first
\* element whose key is minimal
BusyKeyLt(a, b) ==
    \/ a.total_busy_time < b.total_busy_time
    \/ a.total_busy_time = b.total_busy_time /\ a.service_rate < b.service_rate

FirstMin(ts, free) ==
    free[CHOOSE k \in 1..Len(free) :
            /\ \A j \in 1..Len(free) : ~BusyKeyLt(ts[free[j]], ts[free[k]])
            /\ \A j \in 1..(k - 1) : BusyKeyLt(ts[free[k]], ts[free[j]])]

TellerAssignmentSystem_assign_teller_to_priority_customer_Fastest(ts, customer_time, kind) ==
    LET f == TellerAssignmentSystem_get_free_tellers(ts, customer_time)
    IN [ts |-> f.ts,
        ret |-> IF f.free = <<>> THEN None ELSE FirstMax(f.ts, f.free)]

\* the tellers after the call (ts) and the position of the teller returned
\* (ret), or None
TellerAssignmentSystem_assign_teller_to_priority_customer(ts, customer_time, kind) ==
    LET f == TellerAssignmentSystem_get_free_tellers(ts, customer_time)
    IN [ts |-> f.ts,
        ret |-> IF f.free = <<>> THEN None
                ELSE IF kind \in {"VIP", "ELDERLY", "APPOINTMENT"}
                THEN FirstMax(f.ts, f.free)
                ELSE FirstMin(f.ts, f.free)]

\* the service times random.expovariate may give in try_assign_customer
ProtoServiceTimes == {4, 12}

\* try_assign_customer: the set of worlds it may leave, one for each way
\* the service times are drawn
RECURSIVE try_assign_customer(_)
try_assign_customer(w) ==
    LET f == TellerAssignmentSystem_get_free_tellers(w.tellers, w.current_time)
        w1 == [w EXCEPT !.tellers = f.ts]
        p == CustomerQueue_pop_next(w1.queue)
    IN IF f.free = <<>> THEN {w1}
       ELSE IF p.ret = None THEN {w1}
       ELSE
         LET c == p.ret
             w2 == [w1 EXCEPT !.queue = p.q,
                              !.pops = Append(@, [cust |-> c, queue |-> w1.queue])]
             a == TellerAssignmentSystem_assign_teller_to_priority_customer(
                      w2.tellers, w2.current_time, w2.customers[c].kind)
             w3 == [w2 EXCEPT !.tellers = a.ts]
         IN IF a.ret = None
            THEN {[w3 EXCEPT !.queue = CustomerQueue_add_customer(@, w3.customers[c].kind, c)]}
            ELSE UNION {
                   LET w4 == [w3 EXCEPT
                                !.customers[c].service_start = w3.current_time,
                                !.metrics.wait_times =
                                    Append(@, w3.current_time - w3.customers[c].arrival_time),
                                !.tellers[a.ret] = simulation_Teller_start_service(
                                                       @, w3.current_time, service_time)]
                   IN try_assign_customer(
                          SimulationEngine_schedule(w4, w4.current_time + service_time,
                                                    "finish_service", c, a.ret))
                   : service_time \in ProtoServiceTimes }

finish_service(w, teller, cust) ==
    try_assign_customer(
        [w EXCEPT !.tellers[teller] =
                      [simulation_Teller_finish_service(@) EXCEPT !.customers_served = @ + 1],
                  !.customers[cust].service_end = w.current_time])

upgrade_customer_kind(kind) ==
    IF kind = "REGULAR" THEN [kind |-> "APPOINTMENT", ret |-> TRUE]
    ELSE IF kind = "APPOINTMENT" THEN [kind |-> "ELDERLY", ret |-> TRUE]
    ELSE IF kind = "ELDERLY" THEN [kind |-> "VIP", ret |-> TRUE]
    ELSE [kind |-> kind, ret |-> FALSE]

schedule_abandonment(w, cust) ==
    SimulationEngine_schedule(w, w.customers[cust].arrival_time + w.customers[cust].patience,
                              "abandonment_action", cust, None)

schedule_switch_attempt(w, cust) ==
    SimulationEngine_schedule(w, w.customers[cust].arrival_time + SWITCH_AFTER,
                              "switch_action", cust, None)

switch_action(w, cust) ==
    LET c == w.customers[cust]
        r == CustomerQueue_remove_customer(w.queue, cust)
        u == upgrade_customer_kind(c.kind)
    IN IF cust \in w.switched_once \/ c.service_start # None \/ c.abandoned THEN {w}
       ELSE IF ~r.ret THEN {w}
       ELSE IF u.ret
       THEN try_assign_customer(
                schedule_abandonment(
                    [w EXCEPT !.customers[cust].kind = u.kind,
                              !.customers[cust].patience = @ + PATIENCE_BONUS,
                              !.switched_once = @ \cup {cust},
                              !.queue = CustomerQueue_add_customer(r.q, u.kind, cust)],
                    cust))
       ELSE {[w EXCEPT !.queue = CustomerQueue_add_customer(r.q, c.kind, cust)]}

\* as abandonment_action, without the check of the time against the
\* customer's current patience
abandonment_action_NoRecheck(w, cust) ==
    LET c == w.customers[cust]
        r == CustomerQueue_remove_customer(w.queue, cust)
    IN IF c.service_start = None /\ ~c.abandoned /\ r.ret
       THEN try_assign_customer(
                [w EXCEPT !.queue = r.q,
                          !.customers[cust].abandoned = TRUE,
                          !.metrics.abandoned = @ + 1])
       ELSE {w}

abandonment_action(w, cust) ==
    LET c == w.customers[cust]
        r == CustomerQueue_remove_customer(w.queue, cust)
    IN IF w.current_time < c.arrival_time + c.patience THEN {w}
       ELSE IF c.service_start = None /\ ~c.abandoned /\ r.ret
       THEN try_assign_customer(
                [w EXCEPT !.queue = r.q,
                          !.customers[cust].abandoned = TRUE,
                          !.metrics.abandoned = @ + 1])
       ELSE {w}

arrival_event(w, cust) ==
    LET w1 == [w EXCEPT !.metrics.total_arrivals = @ + 1,
                        !.queue = CustomerQueue_add_customer(@, w.customers[cust].kind, cust)]
        w2 == schedule_switch_attempt(w1, cust)
        w3 == [w2 EXCEPT !.metrics.queue_lengths = Append(@, CustomerQueue_len(w2.queue))]
    IN try_assign_customer(schedule_abandonment(w3, cust))

\* one turn of the loop of schedule_customer_arrivals: inter, kind and
\* patience are the values drawn
schedule_customer_arrivals_turn(w, inter, kind, patience) ==
    LET i == Len(w.customers) + 1
        current_time == w.arrival_clock + inter
    IN SimulationEngine_schedule(
           [w EXCEPT !.arrival_clock = current_time,
                     !.customers = Append(@, prototype_Customer(i, kind, current_time, patience))],
           current_time, "arrival_event", i, None)

\* the module-level objects of full_sim when it is loaded
full_sim_init ==
    [current_time |-> 0,
     heap |-> <<>>,
     queue |-> CustomerQueue_init,
     metrics |-> Metrics_init,
     tellers |-> ListOf([i \in 1..Len(SERVICE_RATES) |->
                            simulation_Teller_init(i, SERVICE_RATES[i])]),
     customers |-> <<>>,
     switched_once |-> {},
     arrival_clock |-> 0,
     pops |-> <<>>]

\* SimulationEngine.run: the event popped by a turn of its loop
SimulationEngine_run_pop(w) ==
    LET event == w.heap[1]
    IN [w EXCEPT !.heap = heapq_heappop(SimulationEventCtx, @),
                 !.current_time = event.time,
                 !.pops = <<>>]

-----------------------------------------------------------------------------
(* The state before any object is driven *)

NoCustomers == <<>>
NoTellers == <<>>
NoCall == [op |-> "none"]
NoPrototype == <<>>
NoProcess == <<>>

\* no Simulator has been constructed
NoSimulator ==
    /\ sim = [current_time |-> 0, customer_id_counter |-> 0]
    /\ stats = SimulationStatistics_init
    /\ pc = "idle"
    /\ budget = 0
    /\ proto = NoPrototype
    /\ process = NoProcess

-----------------------------------------------------------------------------
(* A driver of one EventQueue: any interleaving of schedule and pop *)

InitEQ ==
    /\ customers = NoCustomers
    /\ eq = EventQueue_init
    /\ bq = BankQueue_init(None)
    /\ tellers = NoTellers
    /\ bank = Bank_init
    /\ trace = <<>>
    /\ now = 0
    /\ call = NoCall
    /\ drained = <<>>
    /\ NoSimulator

EQSchedule ==
    /\ Len(trace) < MaxCalls
    /\ \E time \in 0..MaxTime, event_type \in {"CUSTOMER_ARRIVAL", "SERVICE_COMPLETE"} :
          /\ eq' = EventQueue_schedule(eq, time, event_type, None)
          /\ trace' = Append(trace, [op |-> "schedule",
                                     ret |-> NewEvent(eq, time, event_type, None)])
    /\ UNCHANGED <<process, proto, simVars, customers, bq, tellers, bank, now, call, drained>>

EQPop ==
    /\ Len(trace) < MaxCalls
    /\ eq' = EventQueue_pop(eq)
    /\ trace' = Append(trace, IF eq.heap # <<>>
                              THEN [op |-> "pop", ret |-> eq.heap[1]]
                              ELSE [op |-> "pop_none"])
    /\ UNCHANGED <<process, proto, simVars, customers, bq, tellers, bank, now, call, drained>>

NextEQ == EQSchedule \/ EQPop

SpecEQ == InitEQ /\ [][NextEQ]_vars

Select(s, op) == SelectSeq(s, LAMBDA c : c.op = op)
Rets(s) == [i \in 1..Len(s) |-> s[i].ret]

\* events returned by schedule and by pop so far, in call order
Scheduled == Rets(Select(trace, "schedule"))
Popped == Rets(Select(trace, "pop"))

\* every schedule call precedes every pop call
ScheduleThenPop ==
    \A i, j \in 1..Len(trace) :
        (trace[i].op \in {"pop", "pop_none"} /\ trace[j].op = "schedule") => j < i

\* C1: when all schedule calls come before the pops, the popped events are
\* in strictly increasing (time, sequence) order, so non-decreasing in time
\* and in scheduling order within one time; each popped event was scheduled
\* and none is popped twice; once the queue is empty all of them were popped.
C1_PopOrder ==
    ScheduleThenPop =>
        /\ \A i, j \in 1..Len(Popped) :
              i < j => /\ Popped[i].time <= Popped[j].time
                       /\ Popped[i].time = Popped[j].time
                             => Popped[i].sequence < Popped[j].sequence
        /\ SeqSet(Popped) \subseteq SeqSet(Scheduled)
        /\ Cardinality(SeqSet(Popped)) = Len(Popped)
        /\ Cardinality(SeqSet(Scheduled)) = Len(Scheduled)
        /\ eq.heap = <<>> => Len(Popped) = Len(Scheduled)

\* three events scheduled, two at one time, and all popped again
C1_Witness ==
    /\ ScheduleThenPop
    /\ Len(Scheduled) >= 3
    /\ Len(Popped) = Len(Scheduled)
    /\ \E i, j \in 1..Len(Popped) : i < j /\ Popped[i].time = Popped[j].time
    /\ \E i, j \in 1..Len(Scheduled) : i < j /\ Scheduled[i].time > Scheduled[j].time

\* the position in the trace of the last pop that returned an event before
\* call j, or 0
LastPopBefore(j) ==
    LET pops == {i \in 1..(j - 1) : trace[i].op = "pop"}
    IN IF pops = {} THEN 0 ELSE CHOOSE i \in pops : \A k \in pops : k <= i

\* C12: no schedule call with a time earlier than the time of the last
\* event returned by pop() returns an event or inserts one: every call that
\* did was given a time not before that of the last popped event.
C12_NoSchedulingIntoPast ==
    \A j \in 1..Len(trace) :
        (trace[j].op = "schedule" /\ LastPopBefore(j) # 0) =>
            trace[j].ret.time >= trace[LastPopBefore(j)].ret.time

\* C13: in any interleaving of schedule and pop, no pop returns an event
\* ordered in (time, sequence) before an event returned by an earlier pop.
C13_PopsNonDecreasing ==
    \A i, j \in 1..Len(Popped) : i < j => ~EventLt(Popped[j], Popped[i])

-----------------------------------------------------------------------------
(* A driver of one BankQueue: customers are constructed and added, taken   *)
(* with get_next_customer, removed, and scanned for abandonment, in any    *)
(* order.                                                                  *)

MaxQueueSize == 2                       \* the bounded max_size tried
MaxArrival == 1                         \* arrival times range over 0..MaxArrival
Priorities == {VIP, REGULAR}            \* priorities given to customers
Patiences == {2, Inf}                   \* patience given to customers
DefaultServiceTime == 5

ScanTimes == (MaxArrival + 1)..(MaxArrival + 3)

BagOf(s) == [x \in SeqSet(s) |-> Cardinality({i \in 1..Len(s) : s[i] = x})]

InitBQ ==
    /\ customers = NoCustomers
    /\ eq = EventQueue_init
    /\ bq \in {BankQueue_init(m) : m \in {None, 0, MaxQueueSize}}
    /\ tellers = NoTellers
    /\ bank = Bank_init
    /\ trace = <<>>
    /\ now = 0
    /\ call = NoCall
    /\ drained = <<>>
    /\ NoSimulator

BQAdd ==
    /\ call = NoCall
    /\ Len(customers) < MaxCustomers
    /\ \E arrival_time \in 0..MaxArrival, priority \in Priorities, patience \in Patiences :
          LET ref == Len(customers) + 1
              store == Append(customers,
                              Customer_init(ref, arrival_time, priority,
                                            DefaultServiceTime, patience))
              r == BankQueue_add_customer(bq, store, ref)
          IN /\ customers' = store
             /\ bq' = r.q
             /\ call' = [op |-> "add_customer", arg |-> ref, ret |-> r.ret]
             /\ drained' = <<>>
    /\ UNCHANGED <<process, proto, simVars, eq, tellers, bank, now, trace>>

BQGetNext ==
    /\ call = NoCall
    /\ LET r == BankQueue_get_next_customer(bq, customers)
       IN /\ bq' = r.q
          /\ call' = [op |-> "get_next_customer", arg |-> None, ret |-> r.ret]
          /\ drained' = IF r.ret # None THEN Append(drained, r.ret) ELSE drained
    /\ UNCHANGED <<process, proto, simVars, customers, eq, tellers, bank, now, trace>>

BQRemove ==
    /\ call = NoCall
    /\ \E ref \in DOMAIN customers :
          LET r == BankQueue_remove_customer(bq, customers, ref)
          IN /\ bq' = r.q
             /\ call' = [op |-> "remove_customer", arg |-> ref, ret |-> r.ret]
    /\ UNCHANGED <<process, proto, simVars, customers, eq, tellers, bank, now, trace, drained>>

BQProcessAbandonments ==
    /\ call = NoCall
    /\ \E current_time \in ScanTimes :
          LET r == BankQueue_process_abandonments(bq, customers, current_time)
          IN /\ bq' = r.q
             /\ customers' = r.store
             /\ call' = [op |-> "process_abandonments", arg |-> current_time, ret |-> r.ret]
    /\ UNCHANGED <<process, proto, simVars, eq, tellers, bank, now, trace, drained>>

\* the same scan made twice in a row
BQProcessAbandonmentsTwice ==
    /\ call = NoCall
    /\ \E current_time \in ScanTimes :
          LET r1 == BankQueue_process_abandonments(bq, customers, current_time)
              r2 == BankQueue_process_abandonments(r1.q, r1.store, current_time)
          IN /\ bq' = r2.q
             /\ customers' = r2.store
             /\ call' = [op |-> "process_abandonments_twice", arg |-> current_time,
                         ret |-> r1.ret, ret2 |-> r2.ret]
    /\ UNCHANGED <<process, proto, simVars, eq, tellers, bank, now, trace, drained>>

\* the driver has taken the value returned and goes on to its next call
BQReturn ==
    /\ call # NoCall
    /\ call' = NoCall
    /\ UNCHANGED <<process, proto, simVars, customers, eq, bq, tellers, bank, now, trace, drained>>

NextBQ ==
    \/ BQAdd
    \/ BQGetNext
    \/ BQRemove
    \/ BQProcessAbandonments
    \/ BQProcessAbandonmentsTwice
    \/ BQReturn

SpecBQ == InitBQ /\ [][NextBQ]_vars

\* a is not after b in (priority, arrival_time) order
PrioArrivalLeq(a, b) ==
    \/ a.priority < b.priority
    \/ a.priority = b.priority /\ a.arrival_time <= b.arrival_time

\* the line holds every customer at or below its children
IsCustomerHeap(heap, store) ==
    \A i \in 2..Len(heap) : PrioArrivalLeq(store[heap[i \div 2]], store[heap[i]])

\* C3: the customers returned by successive get_next_customer calls come in
\* (priority, arrival_time) ascending order; each call returns a customer
\* that no customer still waiting precedes and takes exactly that customer
\* out of the line; on an empty line it returns None.
C3_Sorted ==
    \A i, j \in 1..Len(drained) :
        i < j => PrioArrivalLeq(customers[drained[i]], customers[drained[j]])

C3_GetNextStep ==
    call'.op = "get_next_customer" =>
        IF bq.heap = <<>>
        THEN call'.ret = None /\ bq' = bq
        ELSE /\ call'.ret \in SeqSet(bq.heap)
             /\ \A ref \in SeqSet(bq.heap) :
                   PrioArrivalLeq(customers[call'.ret], customers[ref])
             /\ Len(bq'.heap) = Len(bq.heap) - 1
             /\ BagOf(bq.heap) = BagOf(Append(bq'.heap, call'.ret))

C3_PriorityOrder == []C3_Sorted /\ [][C3_GetNextStep]_vars

\* three customers added, not in order, and all of them taken again
C3_Witness ==
    /\ Len(drained) = 3
    /\ bq.heap = <<>>
    /\ drained # <<1, 2, 3>>
    /\ customers[drained[1]].priority < customers[drained[3]].priority
    /\ \E i \in 1..2 : /\ customers[drained[i]].priority = customers[drained[i + 1]].priority
                       /\ customers[drained[i]].arrival_time < customers[drained[i + 1]].arrival_time

\* C5: add_customer on a queue that already holds max_size customers returns
\* False and leaves the queue as it was; otherwise it returns True and the
\* customer is in the line; the line never holds more than max_size.
C5_AddStep ==
    call'.op = "add_customer" =>
        IF bq.max_size # None /\ Len(bq.heap) >= bq.max_size
        THEN call'.ret = FALSE /\ bq' = bq
        ELSE /\ call'.ret = TRUE
             /\ BagOf(bq'.heap) = BagOf(Append(bq.heap, call'.arg))
             /\ bq'.max_size = bq.max_size

C5_WithinCapacity == bq.max_size # None => Len(bq.heap) <= bq.max_size

C5_Capacity == []C5_WithinCapacity /\ [][C5_AddStep]_vars

\* a full queue of two has turned a third customer away
C5_Witness ==
    /\ call.op = "add_customer"
    /\ call.ret = FALSE
    /\ bq.max_size = MaxQueueSize
    /\ Len(bq.heap) = MaxQueueSize

\* the waiting customers whose wait at current_time is above their patience
Overdue(heap, store, current_time) ==
    {ref \in SeqSet(heap) :
        current_time - store[ref].arrival_time > store[ref].patience}

\* C6: process_abandonments(t) returns exactly the waiting customers with
\* t - arrival_time > patience, each once and marked abandoned, takes
\* exactly them out of the line and leaves the others as they were, in a
\* line that get_next_customer still empties in (priority, arrival) order.
C6_ScanStep ==
    call'.op = "process_abandonments" =>
        LET gone == Overdue(bq.heap, customers, call'.arg)
        IN /\ SeqSet(call'.ret) = gone
           /\ Len(call'.ret) = Cardinality(gone)
           /\ \A ref \in gone : customers'[ref].abandoned
           /\ \A ref \in DOMAIN customers \ gone : customers'[ref] = customers[ref]
           /\ SeqSet(bq'.heap) = SeqSet(bq.heap) \ gone
           /\ Len(bq'.heap) = Len(bq.heap) - Cardinality(gone)
           /\ bq'.total_customers_abandoned =
                  bq.total_customers_abandoned + Cardinality(gone)

C6_Abandonments ==
    /\ [][C6_ScanStep]_vars
    /\ [](IsCustomerHeap(bq.heap, customers))

\* a scan took a customer out while one whose wait equals its patience stays
C6_Witness ==
    /\ call.op = "process_abandonments"
    /\ call.ret # <<>>
    /\ \E ref \in SeqSet(bq.heap) :
          /\ call.arg - customers[ref].arrival_time = customers[ref].patience
          /\ ~customers[ref].abandoned

\* C7: a scan at a time at which no waiting customer is above its patience
\* returns the empty list and leaves the members of the line, the customers
\* and the abandonment counter as they were; the second of two scans made
\* with one current_time returns the empty list.
C7_ScanStep ==
    /\ (call'.op = "process_abandonments"
        /\ Overdue(bq.heap, customers, call'.arg) = {})
          => /\ call'.ret = <<>>
             /\ BagOf(bq'.heap) = BagOf(bq.heap)
             /\ customers' = customers
             /\ bq'.total_customers_abandoned = bq.total_customers_abandoned
    /\ call'.op = "process_abandonments_twice"
          => /\ call'.ret2 = <<>>
             /\ bq'.total_customers_abandoned =
                    bq.total_customers_abandoned + Len(call'.ret)

C7_Idempotent == [][C7_ScanStep]_vars

\* two scans in a row: the first took a customer out, the second found a
\* line with a customer exactly at its patience and returned nothing
C7_Witness ==
    /\ call.op = "process_abandonments_twice"
    /\ call.ret # <<>>
    /\ call.ret2 = <<>>
    /\ \E ref \in SeqSet(bq.heap) :
          call.arg - customers[ref].arrival_time = customers[ref].patience

\* the customers get_next_customer returns, called until the line is empty
RECURSIVE DrainAll(_, _)
DrainAll(q, store) ==
    IF q.heap = <<>>
    THEN <<>>
    ELSE LET g == BankQueue_get_next_customer(q, store)
         IN <<g.ret>> \o DrainAll(g.q, store)

C23_RemoveStep ==
    call'.op = "remove_customer" =>
        LET c == call'.arg
        IN IF c \in SeqSet(bq.heap)
           THEN /\ call'.ret = TRUE
                /\ c \notin SeqSet(bq'.heap)
                /\ BagOf(Append(bq'.heap, c)) = BagOf(bq.heap)
                /\ bq' = [bq EXCEPT !.heap = bq'.heap]
                /\ LET rest == DrainAll(bq', customers)
                   IN /\ BagOf(rest) = BagOf(bq'.heap)
                      /\ \A i, j \in 1..Len(rest) :
                             i < j => PrioArrivalLeq(customers[rest[i]], customers[rest[j]])
           ELSE /\ call'.ret = FALSE
                /\ bq' = bq

\* C23: remove_customer(c) returns True and removes exactly c when c waits
\* in the line, at the head or not, and returns False and leaves the line
\* as it was when c does not; the customers that remain are returned by
\* get_next_customer in (priority, arrival_time) order.
C23_RemoveAnyMember == [][C23_RemoveStep]_vars

\* a customer that was not at the head was removed and two others remain
C23_Witness ==
    /\ call.op = "remove_customer"
    /\ call.ret = TRUE
    /\ Len(bq.heap) >= 2
    /\ \E ref \in SeqSet(bq.heap) :
           ~PrioArrivalLeq(customers[call.arg], customers[ref])

-----------------------------------------------------------------------------
(* A driver of one Bank with its tellers and queue: it opens and closes    *)
(* the bank, lets customers arrive, assigns, completes, and calls           *)
(* the tellers directly, at the times of its own non-decreasing clock.     *)

NumTellers == 2                         \* tellers of the driven bank
MaxBankCustomers == 2                   \* Customer objects the driver constructs
ServiceTime == 2                        \* service_time_required of the customers
Efficiencies == {1, 2}                  \* teller efficiencies

TellerEfficiency(i) == IF i = 1 THEN 1 ELSE 2

InitBank ==
    /\ customers = NoCustomers
    /\ eq = EventQueue_init
    /\ bq \in {BankQueue_init(m) : m \in {None, 1}}
    /\ tellers = ListOf([i \in 1..NumTellers |-> Teller_init(i - 1, TellerEfficiency(i))])
    /\ bank = Bank_init
    /\ trace = <<>>
    /\ now = 0
    /\ call = NoCall
    /\ drained = <<>>
    /\ NoSimulator

BankTick ==
    /\ call = NoCall
    /\ now < MaxTime
    /\ now' = now + 1
    /\ UNCHANGED <<process, proto, simVars, customers, eq, bq, tellers, bank, trace, call, drained>>

BankOpen ==
    /\ call = NoCall
    /\ LET r == Bank_open_bank(bank, tellers, now)
       IN /\ bank' = r.b
          /\ tellers' = r.ts
    /\ call' = [op |-> "open_bank", arg |-> now]
    /\ UNCHANGED <<process, proto, simVars, customers, eq, bq, trace, now, drained>>

BankClose ==
    /\ call = NoCall
    /\ bank' = Bank_close_bank(bank)
    /\ call' = [op |-> "close_bank"]
    /\ UNCHANGED <<process, proto, simVars, customers, eq, bq, tellers, trace, now, drained>>

\* Customer(...) is constructed and passed to customer_arrives
BankArrive ==
    /\ call = NoCall
    /\ Len(customers) < MaxBankCustomers
    /\ \E priority \in Priorities :
          LET ref == Len(customers) + 1
              store == Append(customers,
                              Customer_init(ref, now, priority, ServiceTime, Inf))
              r == Bank_customer_arrives(bank, bq, store, ref)
          IN /\ customers' = store
             /\ bank' = r.b
             /\ bq' = r.q
             /\ call' = [op |-> "customer_arrives", arg |-> ref, ret |-> r.ret]
    /\ UNCHANGED <<process, proto, simVars, eq, tellers, trace, now, drained>>

BankTryAssign ==
    /\ call = NoCall
    /\ LET r == Bank_try_assign_customer_to_teller(tellers, bq, customers, now)
       IN /\ tellers' = r.ts
          /\ bq' = r.q
          /\ customers' = r.store
          /\ call' = IF r.assigned
                     THEN [op |-> "try_assign_customer_to_teller", arg |-> now,
                           assigned |-> TRUE, teller |-> r.teller,
                           customer |-> r.customer, ret |-> r.service_end_time]
                     ELSE [op |-> "try_assign_customer_to_teller", arg |-> now,
                           assigned |-> FALSE]
    /\ UNCHANGED <<process, proto, simVars, eq, bank, trace, now, drained>>

BankCompleteService ==
    /\ call = NoCall
    /\ \E i \in DOMAIN tellers :
          LET r == Bank_complete_service(tellers, i, customers, now)
          IN /\ tellers' = [tellers EXCEPT ![i] = r.teller]
             /\ customers' = r.store
             /\ call' = [op |-> "complete_service", teller |-> i, arg |-> now,
                         raised |-> r.raised, ret |-> r.ret]
    /\ UNCHANGED <<process, proto, simVars, eq, bq, bank, trace, now, drained>>

\* Customer(...) is constructed and passed to Teller.start_service
TellerStartService ==
    /\ call = NoCall
    /\ Len(customers) < MaxBankCustomers
    /\ \E i \in DOMAIN tellers :
          LET ref == Len(customers) + 1
              store == Append(customers,
                              Customer_init(ref, now, REGULAR, ServiceTime, Inf))
              r == Teller_start_service(tellers[i], store, ref, now)
          IN /\ tellers' = [tellers EXCEPT ![i] = r.teller]
             /\ customers' = r.store
             /\ call' = [op |-> "start_service", teller |-> i, customer |-> ref,
                         arg |-> now, raised |-> r.raised, ret |-> r.ret]
    /\ UNCHANGED <<process, proto, simVars, eq, bq, bank, trace, now, drained>>

BankReturn ==
    /\ call # NoCall
    /\ call' = NoCall
    /\ UNCHANGED <<process, proto, simVars, customers, eq, bq, tellers, bank, trace, now, drained>>

NextBank ==
    \/ BankTick
    \/ BankOpen
    \/ BankClose
    \/ BankArrive
    \/ BankTryAssign
    \/ BankCompleteService
    \/ TellerStartService
    \/ BankReturn

SpecBank == InitBank /\ [][NextBank]_vars

\* C8: start_service on a teller that has a current customer raises and
\* changes nothing: the teller (current_customer, idle_since,
\* total_busy_time) and every customer, the new one's service_start_time
\* included, are as before the call.
C8_StartStep ==
    (call'.op = "start_service" /\ tellers[call'.teller].current_customer # None)
        => /\ call'.raised
           /\ tellers' = tellers
           /\ customers'[call'.customer].service_start_time = None
           /\ \A ref \in DOMAIN customers : customers'[ref] = customers[ref]
           /\ bq' = bq

C8_StartWhenBusy == [][C8_StartStep]_vars

\* start_service has been refused by a teller serving another customer
C8_Witness ==
    /\ call.op = "start_service"
    /\ call.raised
    /\ tellers[call.teller].current_customer \notin {None, call.customer}
    /\ customers[tellers[call.teller].current_customer].service_start_time < call.arg

\* C9: complete_service on a teller without a current customer raises and
\* leaves total_busy_time, customers_served and idle_since as they were.
C9_CompleteStep ==
    (call'.op = "complete_service" /\ tellers[call'.teller].current_customer = None)
        => /\ call'.raised
           /\ tellers' = tellers
           /\ customers' = customers

C9_CompleteWhenIdle == [][C9_CompleteStep]_vars

\* complete_service has been refused by an idle teller that served before
C9_Witness ==
    /\ call.op = "complete_service"
    /\ call.raised
    /\ tellers[call.teller].customers_served # <<>>
    /\ tellers[call.teller].idle_since < call.arg

\* C10: customer_arrives returns False and queues nothing while the bank is
\* closed, and otherwise returns what add_customer returns; a False result
\* adds one to the turned-away counter and a True result leaves it; the
\* arrivals counted are those that entered the line plus those turned away.
C10_ArriveStep ==
    call'.op = "customer_arrives" =>
        /\ bank'.total_customers_arrived = bank.total_customers_arrived + 1
        /\ ~bank.is_open => call'.ret = FALSE /\ bq' = bq
        /\ bank.is_open =>
              /\ call'.ret = ~(bq.max_size # None /\ Len(bq.heap) >= bq.max_size)
              /\ call'.ret = (call'.arg \in SeqSet(bq'.heap))
        /\ bank'.customers_turned_away =
              bank.customers_turned_away + (IF call'.ret THEN 0 ELSE 1)
        /\ bq'.total_customers_entered =
              bq.total_customers_entered + (IF call'.ret THEN 1 ELSE 0)

C10_Accounting ==
    bank.total_customers_arrived = bq.total_customers_entered + bank.customers_turned_away

C10_Arrivals == []C10_Accounting /\ [][C10_ArriveStep]_vars

\* a customer was turned away by the closed bank and, once the bank was
\* open, the next one was accepted into the line
C10_Witness ==
    /\ call.op = "customer_arrives"
    /\ call.ret
    /\ bank.is_open
    /\ bank.customers_turned_away = 1
    /\ bq.total_customers_entered = 1
    /\ bq.heap = <<call.arg>>

\* C25: start_service(customer, t) on an available teller makes that
\* customer the teller's current_customer, sets the customer's
\* service_start_time to t and the teller's idle_since to None, returns
\* t + service_time_required / efficiency, and schedules no event.
C25_StartStep ==
    (call'.op = "start_service" /\ Teller_is_available(tellers[call'.teller]))
        => LET i == call'.teller
               c == call'.customer
               t == call'.arg
           IN /\ ~call'.raised
              /\ tellers'[i].current_customer = c
              /\ ~Teller_is_available(tellers'[i])
              /\ tellers'[i].idle_since = None
              /\ tellers' = [tellers EXCEPT ![i].current_customer = c,
                                            ![i].idle_since = None]
              /\ customers'[c].service_start_time = t
              /\ customers'[c].service_end_time = None
              /\ call'.ret * tellers[i].efficiency
                     = t * tellers[i].efficiency + customers'[c].service_time_required
              /\ eq' = eq
              /\ bq' = bq
              /\ bank' = bank

C25_StartService == [][C25_StartStep]_vars

\* the teller of efficiency 2 started a service after the bank opened at a
\* later time than 0
C25_Witness ==
    /\ call.op = "start_service"
    /\ ~call.raised
    /\ call.arg > 0
    /\ tellers[call.teller].efficiency = 2
    /\ tellers[call.teller].current_customer = call.customer
    /\ bank.is_open

\* C26: complete_service(t) on a busy teller sets the customer's
\* service_end_time to t, adds exactly t - service_start_time to
\* total_busy_time, appends the customer once to customers_served, makes
\* the teller available with idle_since = t, and returns that customer.
C26_CompleteStep ==
    (call'.op = "complete_service" /\ ~Teller_is_available(tellers[call'.teller]))
        => LET i == call'.teller
               c == tellers[i].current_customer
               t == call'.arg
           IN /\ ~call'.raised
              /\ call'.ret = c
              /\ customers' = [customers EXCEPT ![c].service_end_time = t]
              /\ tellers' = [tellers EXCEPT
                                ![i].total_busy_time =
                                    @ + (t - customers[c].service_start_time),
                                ![i].customers_served = Append(@, c),
                                ![i].current_customer = None,
                                ![i].idle_since = t]
              /\ Teller_is_available(tellers'[i])
              /\ Cardinality({k \in 1..Len(tellers'[i].customers_served) :
                                 tellers'[i].customers_served[k] = c}) = 1

C26_CompleteService == [][C26_CompleteStep]_vars

\* a teller completed its second service, each after some time
C26_Witness ==
    /\ call.op = "complete_service"
    /\ ~call.raised
    /\ Len(tellers[call.teller].customers_served) = 2
    /\ tellers[call.teller].total_busy_time = 2
    /\ tellers[call.teller].idle_since = call.arg
    /\ customers[call.ret].arrival_time < customers[call.ret].service_start_time

\* C27: get_available_teller returns None exactly when every teller is
\* busy; otherwise it returns an available teller whose idle_since is the
\* least among the available tellers, and never a busy teller; the teller
\* try_assign_customer_to_teller starts is that teller.
C27_Answer ==
    LET i == Bank_get_available_teller(tellers)
    IN /\ (i = None) <=> (\A j \in DOMAIN tellers : ~Teller_is_available(tellers[j]))
       /\ i # None =>
             /\ i \in DOMAIN tellers
             /\ Teller_is_available(tellers[i])
             /\ tellers[i].idle_since # None
             /\ \A j \in DOMAIN tellers :
                   Teller_is_available(tellers[j]) =>
                       /\ tellers[j].idle_since # None
                       /\ tellers[i].idle_since <= tellers[j].idle_since

C27_AssignStep ==
    (call'.op = "try_assign_customer_to_teller" /\ call'.assigned)
        => /\ call'.teller = Bank_get_available_teller(tellers)
           /\ Teller_is_available(tellers[call'.teller])

C27_LongestIdleTeller == []C27_Answer /\ [][C27_AssignStep]_vars

\* both tellers are idle, the first since its one service ended, the
\* second for longer, and the second is the answer
C27_Witness ==
    /\ Bank_get_available_teller(tellers) = 2
    /\ Teller_is_available(tellers[1])
    /\ tellers[2].idle_since < tellers[1].idle_since
    /\ Len(tellers[1].customers_served) = 1

\* C31: after any sequence of open_bank, start_service and complete_service
\* calls, a teller's idle_since is set if and only if the teller has no
\* current customer.
C31_IdleSinceIffIdle ==
    \A i \in DOMAIN tellers :
        (tellers[i].idle_since # None) <=> (tellers[i].current_customer = None)

-----------------------------------------------------------------------------
(* A Simulator and its caller: initialize(), step() and run() are called   *)
(* in any order; run() is initialize(), then the turns of its loop, then   *)
(* its return.  A turn of the loop and a call of step() handle one event   *)
(* in the same way.  The random draws are chosen freely from small sets.   *)

SimDuration == 2                        \* simulation_duration
MaxSimCustomers == 3                    \* Customer objects created in all
SimServiceTimes == {2}                  \* draws of _generate_service_time
SimPatiences == {1, Inf}                \* draws of _generate_patience
RunDuration == 3                        \* simulation_duration of the single run
MaxRunCustomers == 4                    \* Customer objects created in that run

World ==
    [customers |-> customers, eq |-> eq, bq |-> bq, tellers |-> tellers,
     bank |-> bank, stats |-> stats, sim |-> sim]

SetWorld(w) ==
    /\ customers' = w.customers
    /\ eq' = w.eq
    /\ bq' = w.bq
    /\ tellers' = w.tellers
    /\ bank' = w.bank
    /\ stats' = w.stats
    /\ sim' = w.sim

\* the intervals that may be drawn at current_time when b more arrivals may
\* come: with none left, only those that reach simulation_duration
IntervalsAt(current_time, b) ==
    {i \in 0..sim.config.simulation_duration :
        b > 0 \/ current_time + i >= sim.config.simulation_duration}

ConstructSimulator(config) ==
    LET w == Simulator_init(config)
    IN /\ customers = w.customers
       /\ eq = w.eq
       /\ bq = w.bq
       /\ tellers = w.tellers
       /\ bank = w.bank
       /\ stats = w.stats
       /\ sim = w.sim
       /\ pc = "idle"
       /\ trace = <<>>
       /\ now = 0
       /\ call = NoCall
       /\ drained = <<>>
       /\ proto = NoPrototype
       /\ process = NoProcess

InitSim ==
    /\ \E capacity \in {None, 0, 1} :
          ConstructSimulator(SimulationConfig(<<1, 2>>, SimDuration, capacity))
    /\ budget = MaxSimCustomers

NextEvent == eq.heap[1]

\* the event handled and the value of _sequence when its handling began
Handled(event) == [ev |-> event, seq_before |-> eq.sequence]

SimInitialize ==
    /\ pc = "idle"
    /\ \E interval \in IntervalsAt(0, budget) :
          SetWorld(Simulator_initialize(World, interval))
    /\ trace' = <<>>
    /\ UNCHANGED <<process, proto, pc, now, call, drained, budget>>

SimRun ==
    /\ pc = "idle"
    /\ \E interval \in IntervalsAt(0, budget) :
          SetWorld(Simulator_initialize(World, interval))
    /\ trace' = <<>>
    /\ pc' = "running"
    /\ UNCHANGED <<process, proto, now, call, drained, budget>>

SimRunReturn ==
    /\ pc = "running"
    /\ EventQueue_is_empty(eq)
    /\ SetWorld(Simulator_record_queue_length(World))
    /\ pc' = "idle"
    /\ UNCHANGED <<process, proto, trace, now, call, drained, budget>>

\* one CUSTOMER_ARRIVAL event is handled, with the customer's priority and
\* patience drawn from the given sets
CustomerArrival(priorities, patiences) ==
    /\ ~EventQueue_is_empty(eq)
    /\ NextEvent.event_type = "CUSTOMER_ARRIVAL"
    /\ LET w == Simulator_begin_event(World)
       IN \E priority \in priorities, service_time \in SimServiceTimes,
             patience \in patiences,
             interval \in IntervalsAt(NextEvent.time, budget - 1) :
             SetWorld(Simulator_handle_customer_arrival(w, priority, service_time,
                                                        patience, interval))
    /\ budget' = budget - 1
    /\ trace' = Append(trace, Handled(NextEvent))
    /\ UNCHANGED <<process, proto, pc, now, call, drained>>

SimCustomerArrival == CustomerArrival(Priorities, SimPatiences)

SimServiceComplete ==
    /\ ~EventQueue_is_empty(eq)
    /\ NextEvent.event_type = "SERVICE_COMPLETE"
    /\ LET r == Simulator_handle_service_complete(Simulator_begin_event(World), NextEvent)
       IN /\ SetWorld(r.w)
          /\ pc' = IF r.raised THEN "idle" ELSE pc
          /\ call' = IF r.raised THEN [op |-> "raised"] ELSE call
    /\ trace' = Append(trace, Handled(NextEvent))
    /\ UNCHANGED <<process, proto, now, drained, budget>>

SimBankClose ==
    /\ ~EventQueue_is_empty(eq)
    /\ NextEvent.event_type = "BANK_CLOSE"
    /\ LET w == Simulator_begin_event(World)
       IN SetWorld([w EXCEPT !.bank = Bank_close_bank(@)])
    /\ trace' = Append(trace, Handled(NextEvent))
    /\ UNCHANGED <<process, proto, pc, now, call, drained, budget>>

NextSim ==
    \/ SimInitialize
    \/ SimRun
    \/ SimRunReturn
    \/ SimCustomerArrival
    \/ SimServiceComplete
    \/ SimBankClose

SpecSim == InitSim /\ [][NextSim]_vars

\* One Simulator with a single teller of efficiency 2 and an unbounded
\* line, on which run() is called; its customers are patient.
RunCustomerArrival == CustomerArrival(Priorities, {Inf})

InitSimRun ==
    /\ ConstructSimulator(SimulationConfig(<<2>>, RunDuration, None))
    /\ budget = MaxRunCustomers

NextSimRun ==
    \/ SimRun
    \/ SimRunReturn
    \/ RunCustomerArrival
    \/ SimServiceComplete
    \/ SimBankClose

SpecSimRun == InitSimRun /\ [][NextSimRun]_vars

EventBefore(a, b) ==
    \/ a.time < b.time
    \/ a.time = b.time /\ a.sequence < b.sequence

\* C2: the events of a run are handled in (time, sequence) order, so events
\* of one timestamp in the order they were scheduled; every pending event
\* comes after every handled one; an event scheduled while an event is
\* handled gets a sequence number above those of all pending events and a
\* time not before the current one.
C2_HandledInOrder ==
    /\ \A i, j \in 1..Len(trace) : i < j => EventBefore(trace[i].ev, trace[j].ev)
    /\ \A i \in 1..Len(trace), k \in 1..Len(eq.heap) :
          EventBefore(trace[i].ev, eq.heap[k])

C2_ScheduleStep ==
    trace' # trace /\ trace' # <<>> =>
        \A k \in 1..Len(eq'.heap) :
            eq'.heap[k] \notin SeqSet(eq.heap) =>
                /\ eq'.heap[k].time >= sim'.current_time
                /\ eq'.heap[k].sequence >= eq.sequence
                /\ \A m \in 1..Len(eq.heap) : eq.heap[m].sequence < eq'.heap[k].sequence

C2_SimultaneousOrder == []C2_HandledInOrder /\ [][C2_ScheduleStep]_vars

\* three events of one timestamp were handled one after the other; the
\* third was scheduled while the first was handled, when the second was
\* already pending
C2_Witness ==
    \E i \in 1..(Len(trace) - 2) :
        /\ trace[i].ev.time = trace[i + 2].ev.time
        /\ trace[i + 1].ev.sequence < trace[i].seq_before
        /\ trace[i + 2].ev.sequence >= trace[i].seq_before
        /\ trace[i + 2].ev.sequence < trace[i + 1].seq_before


\* C11: between the handlers of the events of a Simulator, no teller is
\* idle while a customer waits in the line.
C11_NoIdleWhileWaiting ==
    ~(/\ bq.heap # <<>>
      /\ \E i \in 1..Len(tellers) : Teller_is_available(tellers[i]))

\* a service completion has just been handled and the teller it freed, or
\* another, took a customer that had waited in the line
C11_Witness ==
    /\ trace # <<>>
    /\ Last(trace).ev.event_type = "SERVICE_COMPLETE"
    /\ \E i \in 1..Len(tellers) :
          /\ ~Teller_is_available(tellers[i])
          /\ customers[tellers[i].current_customer].service_start_time = sim.current_time
          /\ customers[tellers[i].current_customer].arrival_time < sim.current_time

\* C29: service_start_time and service_end_time of a customer are each
\* assigned at most once and keep their value, arrival_time never changes,
\* and arrival_time <= service_start_time <= service_end_time whenever the
\* later values are set.
C29_TimeOrdered ==
    \A c \in DOMAIN customers :
        /\ customers[c].service_start_time # None =>
               customers[c].arrival_time <= customers[c].service_start_time
        /\ customers[c].service_end_time # None =>
               /\ customers[c].service_start_time # None
               /\ customers[c].service_start_time <= customers[c].service_end_time

C29_SetOnceStep ==
    \A c \in DOMAIN customers :
        /\ c \in DOMAIN customers'
        /\ customers'[c].arrival_time = customers[c].arrival_time
        /\ customers[c].service_start_time # None =>
               customers'[c].service_start_time = customers[c].service_start_time
        /\ customers[c].service_end_time # None =>
               customers'[c].service_end_time = customers[c].service_end_time

C29_ServiceTimesSetOnce == []C29_TimeOrdered /\ [][C29_SetOnceStep]_vars

\* a customer who waited in the line has been served, after the customer
\* whose teller took it
C29_Witness ==
    \E c, d \in DOMAIN customers :
        /\ customers[c].arrival_time < customers[c].service_start_time
        /\ customers[c].service_end_time # None
        /\ customers[c].service_start_time < customers[c].service_end_time
        /\ customers[d].service_end_time = customers[c].service_start_time
        /\ \E i \in DOMAIN tellers :
              /\ c \in SeqSet(tellers[i].customers_served)
              /\ d \in SeqSet(tellers[i].customers_served)

\* the SERVICE_COMPLETE events pending for the teller with this teller_id
PendingCompletions(teller_id) ==
    {k \in 1..Len(eq.heap) :
        eq.heap[k].event_type = "SERVICE_COMPLETE" /\ eq.heap[k].data = teller_id}

\* C36: in every state reached by initialize() followed by any number of
\* step() calls, a teller is busy if and only if exactly one
\* SERVICE_COMPLETE event carrying its teller_id is pending in the event
\* queue, and an idle teller has none pending.
C36_BusyIffCompletionPending ==
    \A i \in DOMAIN tellers :
        Cardinality(PendingCompletions(tellers[i].teller_id))
            = IF Teller_is_available(tellers[i]) THEN 0 ELSE 1

\* the state initialize() leaves on a newly constructed simulator: clock 0,
\* empty line, every teller idle with no busy time, no arrival counted or
\* turned away, empty statistics, and an event queue holding the BANK_CLOSE
\* event and at most one CUSTOMER_ARRIVAL event
C37_Fresh ==
    /\ sim.current_time = 0
    /\ sim.customer_id_counter = 0
    /\ bq.heap = <<>>
    /\ \A i \in DOMAIN tellers :
          /\ Teller_is_available(tellers[i])
          /\ tellers[i].total_busy_time = 0
          /\ tellers[i].idle_since = 0
    /\ bank.is_open
    /\ bank.total_customers_arrived = 0
    /\ bank.customers_turned_away = 0
    /\ stats = SimulationStatistics_init
    /\ \A k \in 1..Len(eq.heap) : eq.heap[k].event_type \in {"CUSTOMER_ARRIVAL", "BANK_CLOSE"}
    /\ Cardinality({k \in 1..Len(eq.heap) : eq.heap[k].event_type = "BANK_CLOSE"}) = 1
    /\ Cardinality({k \in 1..Len(eq.heap) : eq.heap[k].event_type = "CUSTOMER_ARRIVAL"}) <= 1

\* C37: initialize(), called at any point (after any number of step()
\* calls, or after a completed run()), leaves the state initialize() leaves
\* on a newly constructed simulator.
C37_InitializeResets == [][SimInitialize => C37_Fresh']_vars

\* C14: once the bank has been closed after it was opened (the BANK_CLOSE
\* event scheduled by initialize() has been handled), no later step makes
\* is_open true again.
C14_NoReopening ==
    [][(/\ ~bank.is_open
        /\ \E i \in 1..Len(trace) : trace[i].ev.event_type = "BANK_CLOSE")
           => ~bank'.is_open]_vars

-----------------------------------------------------------------------------
(* A newly constructed Simulator on which run() is called, and called     *)
(* again once it has returned.  The inter-arrival intervals drawn are      *)
(* positive, so the arrivals of a run are bounded by simulation_duration.  *)

RunsDuration == 4                       \* simulation_duration
MaxRunsCustomers == 3                   \* Customer objects created in all
RunsEfficiencies == {<<>>, <<1>>, <<1, 2>>}
RunsCapacities == {None, 0, 1}
RunsServiceTimes == {3}                 \* draws of _generate_service_time
RunsPatiences == {1, Inf}               \* draws of _generate_patience

\* the positive intervals that may be drawn at current_time when b more
\* arrivals may come: with none left, only those that reach
\* simulation_duration
RunsIntervalsAt(current_time, b) ==
    {i \in 1..RunsDuration : b > 0 \/ current_time + i >= RunsDuration}

InitRuns ==
    /\ \E efficiencies \in RunsEfficiencies, capacity \in RunsCapacities :
          ConstructSimulator(SimulationConfig(efficiencies, RunsDuration, capacity))
    /\ budget = MaxRunsCustomers

RunsCall ==
    /\ pc \in {"idle", "returned"}
    /\ \E interval \in RunsIntervalsAt(0, budget) :
          SetWorld(Simulator_initialize(World, interval))
    /\ trace' = <<>>
    /\ pc' = "running"
    /\ UNCHANGED <<process, proto, now, call, drained, budget>>

RunsCustomerArrival ==
    /\ pc = "running"
    /\ ~EventQueue_is_empty(eq)
    /\ NextEvent.event_type = "CUSTOMER_ARRIVAL"
    /\ LET w == Simulator_begin_event(World)
       IN \E priority \in Priorities, service_time \in RunsServiceTimes,
             patience \in RunsPatiences,
             interval \in RunsIntervalsAt(NextEvent.time, budget - 1) :
             SetWorld(Simulator_handle_customer_arrival(w, priority, service_time,
                                                        patience, interval))
    /\ budget' = budget - 1
    /\ trace' = Append(trace, Handled(NextEvent))
    /\ UNCHANGED <<process, proto, pc, now, call, drained>>

RunsReturn ==
    /\ pc = "running"
    /\ EventQueue_is_empty(eq)
    /\ SetWorld(Simulator_record_queue_length(World))
    /\ pc' = "returned"
    /\ UNCHANGED <<process, proto, trace, now, call, drained, budget>>

NextRuns ==
    \/ RunsCall
    \/ RunsCustomerArrival
    \/ SimServiceComplete
    \/ SimBankClose
    \/ RunsReturn

SpecRuns == InitRuns /\ [][NextRuns]_vars

\* the Customer objects created so far that completed service, and those
\* that abandoned the line
ServedCustomers == {c \in 1..Len(customers) : customers[c].service_end_time # None}
AbandonedCustomers == {c \in 1..Len(customers) : customers[c].abandoned}

\* what C15 says of the state in which run() returns
AllDone ==
    /\ EventQueue_is_empty(eq)
    /\ bq.heap = <<>>
    /\ \A i \in 1..Len(tellers) : Teller_is_available(tellers[i])
    /\ ServedCustomers \cap AbandonedCustomers = {}
    /\ bank.total_customers_arrived = Len(customers)
    /\ bank.total_customers_arrived =
          Cardinality(ServedCustomers) + Cardinality(AbandonedCustomers)
              + bank.customers_turned_away

\* the loop of run() ends: every turn handles one more event, and the
\* events handled in a run are bounded by the arrival times before
\* simulation_duration, one completion for each arrival, and the closing
RunEnds ==
    /\ [](Len(trace) <= 2 * RunsDuration)
    /\ [][pc = "running" =>
            \/ pc' = "running" /\ Len(trace') = Len(trace) + 1
            \/ pc' = "returned" /\ EventQueue_is_empty(eq)]_vars

C16_ExclusiveOutcomes ==
    /\ \A c \in SeqSet(stats.served_customers) :
          /\ ~customers[c].abandoned
          /\ customers[c].service_start_time # None
          /\ customers[c].service_end_time # None
          /\ customers[c].service_start_time <= customers[c].service_end_time
    /\ \A c \in SeqSet(stats.abandoned_customers) : customers[c].abandoned
    /\ \A c \in AbandonedCustomers :
          /\ customers[c].service_start_time = None
          /\ customers[c].service_end_time = None
    /\ SeqSet(stats.served_customers) \cap SeqSet(stats.abandoned_customers) = {}
    /\ \A i \in 1..Len(tellers) :
          ~Teller_is_available(tellers[i]) =>
              ~customers[tellers[i].current_customer].abandoned

\* one customer has been served, one has abandoned the line and one is
\* being served
C16_Witness ==
    /\ stats.served_customers # <<>>
    /\ stats.abandoned_customers # <<>>
    /\ \E i \in 1..Len(tellers) : ~Teller_is_available(tellers[i])

\* C17: during a Simulator run no teller has accumulated more busy time
\* than the simulation clock shows, and Teller.get_utilization(total_time)
\* lies between 0 and 1 and is 0 when total_time <= 0.
C17_BusyTimeWithinClock ==
    \A i \in 1..Len(tellers) :
        /\ tellers[i].total_busy_time <= sim.current_time
        /\ \A total_time \in -1..RunsDuration :
               LET u == Teller_get_utilization(tellers[i], total_time)
               IN  /\ u.den > 0
                   /\ 0 <= u.num
                   /\ u.num <= u.den
                   /\ (total_time <= 0 => u.num = 0)

\* the number of places that hold customer c: the positions of the waiting
\* line, the tellers serving it, the positions of the served list and of
\* the abandoned list
Holdings(c, q, ts, st) ==
    Cardinality({k \in DOMAIN q.heap : q.heap[k] = c})
        + Cardinality({i \in DOMAIN ts : ts[i].current_customer = c})
        + Cardinality({k \in DOMAIN st.served_customers : st.served_customers[k] = c})
        + Cardinality({k \in DOMAIN st.abandoned_customers : st.abandoned_customers[k] = c})

IsPrefix(s, t) == Len(s) <= Len(t) /\ SubSeq(t, 1, Len(s)) = s

\* C32: between the events of a run every accepted customer is held in
\* exactly one place (the waiting line, one teller, the served list or the
\* abandoned list), never twice in one of them, and the served and
\* abandoned lists only grow.
C32_HeldOnce ==
    \A c \in DOMAIN customers : Holdings(c, bq, tellers, stats) <= 1

C32_EventStep ==
    (pc = "running" /\ pc' = "running")
        => /\ \A c \in DOMAIN customers :
                 Holdings(c, bq, tellers, stats) = 1
                     => Holdings(c, bq', tellers', stats') = 1
           /\ \A c \in DOMAIN customers' \ DOMAIN customers :
                 (bank'.customers_turned_away = bank.customers_turned_away)
                     <=> Holdings(c, bq', tellers', stats') = 1
           /\ IsPrefix(stats.served_customers, stats'.served_customers)
           /\ IsPrefix(stats.abandoned_customers, stats'.abandoned_customers)

C32_OnePlacePerCustomer == []C32_HeldOnce /\ [][C32_EventStep]_vars

\* during a run one customer has been served, another has abandoned and a
\* third is being served
C32_Witness ==
    /\ pc = "running"
    /\ stats.served_customers # <<>>
    /\ stats.abandoned_customers # <<>>
    /\ \E i \in DOMAIN tellers : tellers[i].current_customer # None
    /\ \A c \in DOMAIN customers : Holdings(c, bq, tellers, stats) = 1
    /\ Len(customers) = 3

\* the area under the step function of the samples: each length weighted by
\* the time to the next sample
StepArea(samples) ==
    SumSeq([i \in 1..(Len(samples) - 1) |->
               samples[i][2] * (samples[i + 1][1] - samples[i][1])])

\* the value the claim gives when the area is divided by elapsed
AreaOver(samples, elapsed) ==
    IF samples = <<>> \/ elapsed = 0 THEN Zero ELSE Quotient(StepArea(samples), elapsed)

\* C34 as stated: get_average_queue_length is the area under the step
\* function of the recorded samples divided by the elapsed simulation time
\* (the clock of the simulator), and 0 when that time is 0 or there are no
\* samples.
C34_OverSimulationTime ==
    SameQuotient(SimulationStatistics_get_average_queue_length(stats),
                 AreaOver(stats.queue_length_samples, sim.current_time))

\* C34, amended: get_average_queue_length is the area under the step
\* function of the recorded samples divided by the time elapsed between the
\* first and the last sample, and 0 when that time is 0 or there are no
\* samples.
C34_TimeWeightedAverage ==
    LET samples == stats.queue_length_samples
    IN SameQuotient(SimulationStatistics_get_average_queue_length(stats),
                    AreaOver(samples,
                             IF samples = <<>> THEN 0
                             ELSE samples[Len(samples)][1] - samples[1][1]))

\* a run has returned with samples at irregular times, the first after time
\* 0, and an average that is neither 0 nor the mean of the samples
C34_Witness ==
    LET samples == stats.queue_length_samples
        average == SimulationStatistics_get_average_queue_length(stats)
    IN /\ pc = "returned"
       /\ Len(samples) >= 4
       /\ samples[1][1] > 0
       /\ \E i, j \in 1..(Len(samples) - 1) :
             /\ samples[i][2] > 0 /\ samples[j][2] > 0
             /\ samples[i + 1][1] - samples[i][1] > samples[j + 1][1] - samples[j][1]
             /\ samples[j + 1][1] > samples[j][1]
       /\ ~SameQuotient(average, Zero)
       /\ ~SameQuotient(average, SimulationStatistics_get_average_queue_length_Mean(stats))

\* C35: in a Simulator run every customer that started service started it
\* within its patience, service_start_time - arrival_time <= patience: the
\* line is scanned for abandonments at the time of an event before any
\* customer is assigned at that time.
C35_ServedWithinPatience ==
    \A c \in DOMAIN customers :
        customers[c].service_start_time # None =>
            customers[c].service_start_time - customers[c].arrival_time
                <= customers[c].patience

\* a customer was served after waiting exactly its patience, and another
\* customer abandoned the line
C35_Witness ==
    /\ \E c \in SeqSet(stats.served_customers) :
          /\ customers[c].patience < Inf
          /\ customers[c].service_start_time - customers[c].arrival_time
                = customers[c].patience
    /\ stats.abandoned_customers # <<>>

\* a step of a run that handles the arrival of a customer while the bank is
\* open and a teller is idle
C38_ArrivalAtIdleTeller ==
    /\ pc = "running" /\ pc' = "running"
    /\ Len(customers') = Len(customers) + 1
    /\ bank.is_open
    /\ \E i \in DOMAIN tellers : Teller_is_available(tellers[i])

\* C38: in a Simulator run a customer who arrives while the bank is open
\* and at least one teller is idle is never turned away, whatever the
\* queue_capacity (0 included): the customer is accepted and starts service
\* at its arrival time.
C38_NeverTurnedAwayAtIdleTeller ==
    [][C38_ArrivalAtIdleTeller =>
          LET c == customers'[Len(customers')]
          IN /\ bank'.customers_turned_away = bank.customers_turned_away
             /\ c.service_start_time = c.arrival_time]_vars

-----------------------------------------------------------------------------
(* A Simulator with a single teller of efficiency 1 and an unbounded line, *)
(* on which run() is called once.  Services are long, and the arrivals     *)
(* come together, one time unit apart or ten time units apart.             *)

DeskDuration == 11                      \* simulation_duration
MaxDeskCustomers == 2                   \* Customer objects created in all
DeskServiceTimes == {5, 20}             \* draws of _generate_service_time
DeskPatiences == {12, Inf}              \* draws of _generate_patience

\* the intervals that may be drawn at current_time when b more arrivals may
\* come: with none left, only those that reach simulation_duration
DeskIntervalsAt(current_time, b) ==
    {i \in {0, 1, 10, DeskDuration} : b > 0 \/ current_time + i >= DeskDuration}

InitDesk ==
    /\ ConstructSimulator(SimulationConfig(<<1>>, DeskDuration, None))
    /\ budget = MaxDeskCustomers

DeskCall ==
    /\ pc = "idle"
    /\ \E interval \in DeskIntervalsAt(0, budget) :
          SetWorld(Simulator_initialize(World, interval))
    /\ trace' = <<>>
    /\ pc' = "running"
    /\ UNCHANGED <<process, proto, now, call, drained, budget>>

DeskCustomerArrival ==
    /\ pc = "running"
    /\ ~EventQueue_is_empty(eq)
    /\ NextEvent.event_type = "CUSTOMER_ARRIVAL"
    /\ LET w == Simulator_begin_event(World)
       IN \E priority \in Priorities, service_time \in DeskServiceTimes,
             patience \in DeskPatiences,
             interval \in DeskIntervalsAt(NextEvent.time, budget - 1) :
             SetWorld(Simulator_handle_customer_arrival(w, priority, service_time,
                                                        patience, interval))
    /\ budget' = budget - 1
    /\ trace' = Append(trace, Handled(NextEvent))
    /\ UNCHANGED <<process, proto, pc, now, call, drained>>

NextDesk ==
    \/ DeskCall
    \/ DeskCustomerArrival
    \/ SimServiceComplete
    \/ SimBankClose
    \/ RunsReturn

SpecDesk == InitDesk /\ [][NextDesk]_vars

\* the customer object c is a REGULAR customer of unbounded patience that
\* arrived at the given time and needs the given service time
RegularPatient(c, arrival_time, service_time) ==
    /\ customers[c].priority = REGULAR
    /\ customers[c].patience = Inf
    /\ customers[c].arrival_time = arrival_time
    /\ customers[c].service_time_required = service_time

\* customer c was served over [start, end]
ServedOver(c, start, end) ==
    /\ customers[c].service_start_time = start
    /\ customers[c].service_end_time = end

\* C18: with one teller of efficiency 1 and two REGULAR customers of
\* unbounded patience arriving at 0 and at 1, each needing 5 units of
\* service, customer 1 is in service from 0 on; once the events are
\* handled in time order customer 1 was served over [0, 5] and customer 2
\* over [5, 10], and the average wait time of the served customers is 2.
C18_TwoCustomersOneTeller ==
    (/\ Len(customers) = 2
     /\ RegularPatient(1, 0, 5)
     /\ RegularPatient(2, 1, 5))
    => /\ customers[1].service_start_time = 0
       /\ customers[2].service_start_time \in {None, 5}
       /\ pc = "returned" =>
             /\ ServedOver(1, 0, 5)
             /\ ServedOver(2, 5, 10)
             /\ stats.served_customers = <<1, 2>>
             /\ LET average == SimulationStatistics_get_average_wait_time(stats, customers)
                IN average.num = 2 * average.den

\* both customers of the scenario of C18 were served and run() returned
C18_Witness ==
    /\ Len(customers) = 2
    /\ RegularPatient(1, 0, 5)
    /\ RegularPatient(2, 1, 5)
    /\ pc = "returned"
    /\ SimulationStatistics_get_average_wait_time(stats, customers) = [num |-> 4, den |-> 2]

\* a step changes the customer of a busy teller only by handling the
\* SERVICE_COMPLETE event scheduled when that customer started
C19_NoPreemptionStep ==
    \A i \in 1..Len(tellers) :
        LET c == tellers[i].current_customer
        IN (c # None /\ tellers'[i].current_customer # c) =>
              /\ ~EventQueue_is_empty(eq)
              /\ NextEvent.event_type = "SERVICE_COMPLETE"
              /\ NextEvent.data = tellers[i].teller_id
              /\ NextEvent.time = customers[c].service_start_time
                                  + Teller_calculate_service_time(tellers[i], customers[c])
              /\ customers'[c].service_end_time = NextEvent.time

\* one teller serves a REGULAR customer from 0 to 20 and the second
\* customer is a VIP arriving at 10
VipArrivesDuringService ==
    /\ Len(customers) >= 2
    /\ customers[1].priority = REGULAR
    /\ customers[1].arrival_time = 0
    /\ customers[1].service_time_required = 20
    /\ customers[2].priority = VIP
    /\ customers[2].arrival_time = 10

C19_VipWaits ==
    VipArrivesDuringService
    => /\ customers[1].service_start_time = 0
       /\ sim.current_time < 20 =>
             /\ tellers[1].current_customer = 1
             /\ customers[2].service_start_time = None
       /\ sim.current_time >= 20 => ServedOver(1, 0, 20)
       /\ customers[2].service_start_time \in {None, 20}
       /\ pc = "returned" => customers[2].service_start_time = 20

\* C19: service is never preempted: a busy teller keeps its customer until
\* that customer's own completion, whatever arrives meanwhile; with one
\* teller serving a REGULAR customer from 0 to 20, a VIP arriving at 10
\* starts service at 20 and not earlier.
C19_NoPreemption == []C19_VipWaits /\ [][C19_NoPreemptionStep]_vars

\* the VIP that arrived at 10 during the service of [0, 20] was served
C19_Witness ==
    /\ VipArrivesDuringService
    /\ pc = "returned"
    /\ ServedOver(1, 0, 20)
    /\ customers[2].service_start_time = 20
    /\ customers[2].service_end_time # None

-----------------------------------------------------------------------------
(* A Bank with one teller and queue_capacity = 0, and its caller: the       *)
(* teller is made busy by start_service, and customers arrive whether it   *)
(* is free or not.                                                         *)

MaxFullCustomers == 3                   \* Customer objects the driver constructs

InitFull ==
    /\ customers = NoCustomers
    /\ eq = EventQueue_init
    /\ bq = BankQueue_init(0)
    /\ tellers = <<Teller_init(0, 1)>>
    /\ bank = Bank_init
    /\ trace = <<>>
    /\ now = 0
    /\ call = NoCall
    /\ drained = <<>>
    /\ NoSimulator

\* Customer(...) is constructed and passed to customer_arrives
FullArrive ==
    /\ call = NoCall
    /\ Len(customers) < MaxFullCustomers
    /\ \E priority \in Priorities :
          LET ref == Len(customers) + 1
              store == Append(customers,
                              Customer_init(ref, now, priority, ServiceTime, Inf))
              r == Bank_customer_arrives(bank, bq, store, ref)
          IN /\ customers' = store
             /\ bank' = r.b
             /\ bq' = r.q
             /\ call' = [op |-> "customer_arrives", arg |-> ref, ret |-> r.ret]
    /\ UNCHANGED <<process, proto, simVars, eq, tellers, trace, now, drained>>

\* Customer(...) is constructed and passed to Teller.start_service
FullStartService ==
    /\ call = NoCall
    /\ Len(customers) < MaxFullCustomers
    /\ \E i \in DOMAIN tellers :
          LET ref == Len(customers) + 1
              store == Append(customers,
                              Customer_init(ref, now, REGULAR, ServiceTime, Inf))
              r == Teller_start_service(tellers[i], store, ref, now)
          IN /\ tellers' = [tellers EXCEPT ![i] = r.teller]
             /\ customers' = r.store
             /\ call' = [op |-> "start_service", teller |-> i, customer |-> ref,
                         arg |-> now, raised |-> r.raised, ret |-> r.ret]
    /\ UNCHANGED <<process, proto, simVars, eq, bq, bank, trace, now, drained>>

NextFull ==
    \/ BankTick
    \/ BankOpen
    \/ BankClose
    \/ FullArrive
    \/ BankTryAssign
    \/ BankCompleteService
    \/ FullStartService
    \/ BankReturn

SpecFull == InitFull /\ [][NextFull]_vars

NoTellerFree == \A i \in 1..Len(tellers) : ~Teller_is_available(tellers[i])

\* with capacity 0 every arrival so far was turned away and nobody waits
C20_AllTurnedAway ==
    bq.max_size = 0 =>
        /\ bank.customers_turned_away = bank.total_customers_arrived
        /\ bq.heap = <<>>

\* an arrival at capacity 0 with no teller free is refused and counted as
\* arrived and as turned away
C20_ArriveStep ==
    (/\ call = NoCall
     /\ call'.op = "customer_arrives"
     /\ bq.max_size = 0
     /\ NoTellerFree)
    => /\ call'.ret = FALSE
       /\ bank'.total_customers_arrived = bank.total_customers_arrived + 1
       /\ bank'.customers_turned_away = bank.customers_turned_away + 1
       /\ bq' = bq

\* C20: with queue_capacity = 0 and no teller free at any arrival, every
\* arrival is turned away: after any number of arrivals the turned-away
\* counter equals the total-arrivals counter and the waiting line is empty.
C20_ZeroCapacity == []C20_AllTurnedAway /\ [][C20_ArriveStep]_vars

\* two customers arrived at the open bank while its teller was serving
C20_Witness ==
    /\ bq.max_size = 0
    /\ bank.is_open
    /\ NoTellerFree
    /\ Len(tellers) > 0
    /\ bank.total_customers_arrived = 2
    /\ \A c \in 1..Len(customers) :
           customers[c].service_start_time = None => c > Len(tellers)

-----------------------------------------------------------------------------
(* One Python process in which two Simulators are constructed with the     *)
(* same configuration and random_seed, and each is run once.  The calls    *)
(* come in any order; a run() is not interrupted by another call.  The     *)
(* draws come from the random module, which the process shares.            *)

TwinDuration == 4                       \* simulation_duration
MaxSeed == 3                            \* random_seed ranges over 0..MaxSeed
TwinEfficiencies == {<<1>>, <<1, 2>>}
TwinCapacities == {None, 1}

TwinConfig(efficiencies, capacity, seed) ==
    [num_tellers |-> Len(efficiencies), teller_efficiencies |-> efficiencies,
     simulation_duration |-> TwinDuration, queue_capacity |-> capacity,
     mean_service_time |-> 2, mean_patience |-> 2, random_seed |-> seed]

NoInstance == [pc |-> "none"]

InitTwins ==
    /\ customers = NoCustomers
    /\ eq = EventQueue_init
    /\ bq = BankQueue_init(None)
    /\ tellers = NoTellers
    /\ bank = Bank_init
    /\ trace = <<>>
    /\ now = 0
    /\ call = NoCall
    /\ drained = <<>>
    /\ sim = [current_time |-> 0, customer_id_counter |-> 0]
    /\ stats = SimulationStatistics_init
    /\ pc = "idle"
    /\ budget = 0
    /\ proto = NoPrototype
    /\ \E efficiencies \in TwinEfficiencies, capacity \in TwinCapacities,
          seed \in 0..MaxSeed, x \in 0..(RandomModulus - 1) :
          process = [config |-> TwinConfig(efficiencies, capacity, seed),
                     random |-> [x |-> x, gauss_next |-> <<>>],
                     sims |-> <<NoInstance, NoInstance>>]

TwinUnchanged ==
    UNCHANGED <<customers, eq, bq, tellers, bank, trace, now, call, drained, sim, stats,
                pc, budget, proto>>

NoneRunning == \A j \in 1..2 : process.sims[j].pc # "running"

TwinNextEvent(i) == process.sims[i].w.eq.heap[1]

\* instance i is inside run() and its loop finds an event of the type
TwinPending(i, event_type) ==
    /\ process.sims[i].pc = "running"
    /\ ~EventQueue_is_empty(process.sims[i].w.eq)
    /\ TwinNextEvent(i).event_type = event_type

TwinConstruct ==
    /\ NoneRunning
    /\ \E i \in 1..2 :
          /\ process.sims[i].pc = "none"
          /\ LET c == Simulator_init_seeded(process.config, process.random)
             IN process' = [process EXCEPT !.random = c.r,
                                           !.sims[i] = [pc |-> "idle", w |-> c.w]]
    /\ TwinUnchanged

TwinRunCall ==
    /\ NoneRunning
    /\ \E i \in 1..2 :
          /\ process.sims[i].pc = "idle"
          /\ LET c == Simulator_initialize_drawn(process.sims[i].w, process.random)
             IN process' = [process EXCEPT !.random = c.r,
                                           !.sims[i] = [pc |-> "running", w |-> c.w]]
    /\ TwinUnchanged

TwinCustomerArrival ==
    /\ \E i \in 1..2 :
          /\ TwinPending(i, "CUSTOMER_ARRIVAL")
          /\ LET c == Simulator_handle_customer_arrival_drawn(
                          Simulator_begin_event(process.sims[i].w), process.random)
             IN process' = [process EXCEPT !.random = c.r, !.sims[i].w = c.w]
    /\ TwinUnchanged

TwinServiceComplete ==
    /\ \E i \in 1..2 :
          /\ TwinPending(i, "SERVICE_COMPLETE")
          /\ LET c == Simulator_handle_service_complete(
                          Simulator_begin_event(process.sims[i].w), TwinNextEvent(i))
             IN process' = [process EXCEPT !.sims[i].w = c.w]
    /\ TwinUnchanged

TwinBankClose ==
    /\ \E i \in 1..2 :
          /\ TwinPending(i, "BANK_CLOSE")
          /\ LET w == Simulator_begin_event(process.sims[i].w)
             IN process' = [process EXCEPT
                               !.sims[i].w = [w EXCEPT !.bank = Bank_close_bank(@)]]
    /\ TwinUnchanged

TwinReturn ==
    /\ \E i \in 1..2 :
          /\ process.sims[i].pc = "running"
          /\ EventQueue_is_empty(process.sims[i].w.eq)
          /\ process' = [process EXCEPT
                            !.sims[i] = [pc |-> "returned",
                                         w |-> Simulator_record_queue_length(@.w)]]
    /\ TwinUnchanged

NextTwins ==
    \/ TwinConstruct
    \/ TwinRunCall
    \/ TwinCustomerArrival
    \/ TwinServiceComplete
    \/ TwinBankClose
    \/ TwinReturn

SpecTwins == InitTwins /\ [][NextTwins]_vars

\* what a run reports: the served and abandoned counts and, by customer,
\* the wait time (None for a customer never served)
RunResults(w) ==
    [served |-> Len(w.stats.served_customers),
     abandoned |-> Len(w.stats.abandoned_customers),
     wait_times |-> [c \in 1..Len(w.customers) |->
                        IF w.customers[c].service_start_time = None
                        THEN None
                        ELSE Customer_get_wait_time(w.customers[c])]]

BothReturned == \A i \in 1..2 : process.sims[i].pc = "returned"

\* C21: two Simulators constructed with the same configuration and
\* random_seed give, once each has run, the same served and abandoned
\* counts and the same wait time for every customer, in whatever order
\* they were constructed and run.
C21_SameSeedSameResults ==
    BothReturned => RunResults(process.sims[1].w) = RunResults(process.sims[2].w)

-----------------------------------------------------------------------------
(* Simulator(config) is called with a configuration of any shape, and the  *)
(* Simulator it returns, if any, is run.                                   *)

MaxConfigTellers == 2                   \* num_tellers ranges over 1..MaxConfigTellers
MaxConfigCustomers == 2                 \* Customer objects created in all
ConfigDuration == 2                     \* simulation_duration
ConfigEfficiencies == {<<>>, <<1>>, <<1, 2>>, <<1, 1, 2>>}
\* priority_distribution, in tenths: sums of 1.0, of 1.2 and of 1.5
ConfigDistributions ==
    {<<<<VIP, 1>>, <<ELDERLY, 2>>, <<APPOINTMENT, 1>>, <<REGULAR, 6>>>>,
     <<<<VIP, 6>>, <<REGULAR, 6>>>>,
     <<<<VIP, 12>>, <<REGULAR, 3>>>>}

Configs ==
    {[num_tellers |-> n, teller_efficiencies |-> e,
      simulation_duration |-> ConfigDuration, queue_capacity |-> None,
      priority_distribution |-> dist] :
        n \in 1..MaxConfigTellers, e \in ConfigEfficiencies, dist \in ConfigDistributions}

InitConfig ==
    /\ customers = NoCustomers
    /\ eq = EventQueue_init
    /\ bq = BankQueue_init(None)
    /\ tellers = NoTellers
    /\ bank = Bank_init
    /\ trace = <<>>
    /\ now = 0
    /\ \E config \in Configs : call = [op |-> "Simulator", arg |-> config]
    /\ drained = <<>>
    /\ sim = [current_time |-> 0, customer_id_counter |-> 0]
    /\ stats = SimulationStatistics_init
    /\ pc = "none"
    /\ budget = MaxConfigCustomers
    /\ proto = NoPrototype
    /\ process = NoProcess

ConfigConstruct ==
    /\ pc = "none"
    /\ LET c == Simulator_construct(call.arg)
       IN IF c.raised
          THEN /\ pc' = "raised"
               /\ UNCHANGED <<customers, eq, bq, tellers, bank, stats, sim>>
          ELSE /\ pc' = "idle"
               /\ SetWorld(c.w)
    /\ UNCHANGED <<process, proto, trace, now, call, drained, budget>>

ConfigCustomerArrival ==
    /\ pc = "running"
    /\ CustomerArrival(Simulator_generate_priority_any(sim.config.priority_distribution),
                       {Inf})

NextConfig ==
    \/ ConfigConstruct
    \/ SimRun
    \/ SimRunReturn
    \/ ConfigCustomerArrival
    \/ SimServiceComplete
    \/ SimBankClose

SpecConfig == InitConfig /\ [][NextConfig]_vars

\* the probabilities sum to at most 1.0 and teller_efficiencies is None or
\* has one entry for each teller
ValidConfig(config) ==
    /\ SumSeq([k \in 1..Len(config.priority_distribution) |->
                  config.priority_distribution[k][2]]) <= 10
    /\ \/ config.teller_efficiencies = <<>>
       \/ Len(config.teller_efficiencies) = config.num_tellers

\* C22: a priority_distribution summing to more than 1.0, or a
\* teller_efficiencies list whose length differs from num_tellers, is
\* rejected at construction: no Simulator exists with such a config, and
\* none schedules or handles an event.
C22_InvalidConfigRejected ==
    pc \notin {"none", "raised"} => ValidConfig(sim.config)

------------------------------------------------------------------------------
(* One Simulator with two tellers and an unbounded line, driven through     *)
(* initialize(), step(), and calls of bank.customer_arrives and of          *)
(* _try_start_service made between the steps, so that customers wait in    *)
(* the line while tellers are idle.                                         *)

StartDuration == 3                      \* simulation_duration
MaxStartCustomers == 3                  \* Customer objects created in all

InitStart ==
    /\ ConstructSimulator(SimulationConfig(<<1, 2>>, StartDuration, None))
    /\ budget = MaxStartCustomers

StartInitialize ==
    /\ pc = "idle"
    /\ call = NoCall
    /\ \E interval \in IntervalsAt(0, budget) :
          SetWorld(Simulator_initialize(World, interval))
    /\ pc' = "stepping"
    /\ UNCHANGED <<process, proto, trace, now, call, drained, budget>>

\* bank.customer_arrives(_create_customer()): the customer joins the line
\* and no service is started
StartCustomerArrives ==
    /\ pc = "stepping"
    /\ call = NoCall
    /\ budget > 0
    /\ \E priority \in Priorities :
          LET w1 == Simulator_create_customer(World, priority, ServiceTime, Inf)
              customer == Len(w1.customers)
              r == Bank_customer_arrives(w1.bank, w1.bq, w1.customers, customer)
          IN /\ SetWorld([w1 EXCEPT !.bank = r.b, !.bq = r.q])
             /\ call' = [op |-> "customer_arrives", arg |-> customer, ret |-> r.ret]
    /\ budget' = budget - 1
    /\ UNCHANGED <<process, proto, pc, trace, now, drained>>

StartTryStartService ==
    /\ pc = "stepping"
    /\ call = NoCall
    /\ SetWorld(Simulator_try_start_service(World))
    /\ call' = [op |-> "_try_start_service"]
    /\ UNCHANGED <<process, proto, pc, trace, now, drained, budget>>

StartReturn ==
    /\ pc = "stepping"
    /\ call # NoCall
    /\ call' = NoCall
    /\ UNCHANGED <<process, proto, simVars, bankVars, pc, trace, now, drained, budget>>

Stepping == pc = "stepping" /\ call = NoCall

StartCustomerArrival == Stepping /\ CustomerArrival(Priorities, {Inf})

StartServiceComplete == Stepping /\ SimServiceComplete

StartBankClose == Stepping /\ SimBankClose

NextStart ==
    \/ StartInitialize
    \/ StartCustomerArrives
    \/ StartTryStartService
    \/ StartReturn
    \/ StartCustomerArrival
    \/ StartServiceComplete
    \/ StartBankClose

SpecStart == InitStart /\ [][NextStart]_vars

IdleTellers(ts) == {i \in DOMAIN ts : Teller_is_available(ts[i])}

Min(a, b) == IF a <= b THEN a ELSE b

Events(q) == {q.heap[k] : k \in DOMAIN q.heap}

\* C28: _try_start_service makes exactly min(idle tellers, line length)
\* assignments; each takes one customer from the line to one idle teller
\* and schedules one SERVICE_COMPLETE event for that teller; a call that
\* finds no idle teller or an empty line leaves the line, the tellers and
\* the event queue as they were.
C28_TryStep ==
    (call = NoCall /\ call'.op = "_try_start_service")
        => LET n == Min(Cardinality(IdleTellers(tellers)), Len(bq.heap))
               started == IdleTellers(tellers) \ IdleTellers(tellers')
               scheduled == Events(eq') \ Events(eq)
           IN /\ Len(bq'.heap) = Len(bq.heap) - n
              /\ SeqSet(bq'.heap) \subseteq SeqSet(bq.heap)
              /\ IdleTellers(tellers') \subseteq IdleTellers(tellers)
              /\ Cardinality(started) = n
              /\ Cardinality(scheduled) = n
              /\ Len(eq'.heap) = Len(eq.heap) + n
              /\ Events(eq) \subseteq Events(eq')
              /\ \A i \in DOMAIN tellers : i \notin started => tellers'[i] = tellers[i]
              /\ \A i \in started :
                    LET c == tellers'[i].current_customer
                    IN /\ c \in SeqSet(bq.heap)
                       /\ c \notin SeqSet(bq'.heap)
                       /\ customers'[c].service_start_time = sim.current_time
                       /\ Cardinality({e \in scheduled :
                              /\ e.event_type = "SERVICE_COMPLETE"
                              /\ e.data = tellers[i].teller_id
                              /\ e.time * tellers[i].efficiency =
                                     sim.current_time * tellers[i].efficiency
                                         + customers[c].service_time_required}) = 1
              /\ \A i, j \in started :
                    tellers'[i].current_customer = tellers'[j].current_customer => i = j
              /\ n = 0 => bq' = bq /\ tellers' = tellers /\ eq' = eq
                              /\ customers' = customers

C28_TryStartService == [][C28_TryStep]_vars

\* a call found two idle tellers and three customers in the line, and left
\* one customer waiting
C28_Witness ==
    /\ call.op = "_try_start_service"
    /\ IdleTellers(tellers) = {}
    /\ \A i \in DOMAIN tellers :
          customers[tellers[i].current_customer].service_start_time = sim.current_time
    /\ Len(bq.heap) = 1
    /\ Cardinality({e \in Events(eq) : e.event_type = "SERVICE_COMPLETE"}) = 2

------------------------------------------------------------------------------
(* One Simulator with a single teller of efficiency 2 on which run() is     *)
(* called, with the arrival intervals drawn as random.expovariate gives     *)
(* them for the mean_arrival_interval of the configuration.                 *)

ClockDuration == 3                      \* simulation_duration
MaxClockCustomers == 3                  \* Customer objects created in one run
MeanArrivalIntervals == {-1, 1}         \* config.mean_arrival_interval
ExpDraws == 0..3                        \* values of -ln(1 - random())

ClockConfig(mean) ==
    [num_tellers |-> 1, teller_efficiencies |-> <<2>>,
     simulation_duration |-> ClockDuration, queue_capacity |-> None,
     mean_arrival_interval |-> mean]

\* random.expovariate(1.0 / mean_arrival_interval) is
\* -ln(1 - random()) * mean_arrival_interval; with b more arrivals allowed,
\* and with none only the draws that end the arrivals
Simulator_generate_arrival_intervals(w, b) ==
    {i \in {x * w.sim.config.mean_arrival_interval : x \in ExpDraws} :
        b > 0 \/ w.sim.current_time + i >= w.sim.config.simulation_duration}

InitClock ==
    /\ \E mean \in MeanArrivalIntervals : ConstructSimulator(ClockConfig(mean))
    /\ budget = MaxClockCustomers

ClockRun ==
    /\ pc = "idle"
    /\ budget = MaxClockCustomers
    /\ \E interval \in Simulator_generate_arrival_intervals(
                           [World EXCEPT !.sim.current_time = 0], budget) :
          SetWorld(Simulator_initialize(World, interval))
    /\ trace' = <<>>
    /\ pc' = "running"
    /\ UNCHANGED <<process, proto, now, call, drained, budget>>

ClockCustomerArrival ==
    /\ pc = "running"
    /\ ~EventQueue_is_empty(eq)
    /\ NextEvent.event_type = "CUSTOMER_ARRIVAL"
    /\ LET w == Simulator_begin_event(World)
       IN \E priority \in Priorities, service_time \in SimServiceTimes,
             interval \in Simulator_generate_arrival_intervals(w, budget - 1) :
             SetWorld(Simulator_handle_customer_arrival(w, priority, service_time,
                                                        Inf, interval))
    /\ budget' = budget - 1
    /\ trace' = Append(trace, Handled(NextEvent))
    /\ UNCHANGED <<process, proto, pc, now, call, drained>>

ClockServiceComplete == pc = "running" /\ SimServiceComplete

ClockBankClose == pc = "running" /\ SimBankClose

NextClock ==
    \/ ClockRun
    \/ ClockCustomerArrival
    \/ ClockServiceComplete
    \/ ClockBankClose
    \/ SimRunReturn

SpecClock == InitClock /\ [][NextClock]_vars

\* C30: with teller efficiencies > 0, every SERVICE_COMPLETE event scheduled
\* lies strictly after the time at which the service starts, every
\* CUSTOMER_ARRIVAL event is scheduled no earlier than the current time,
\* and the clock does not decrease from one handled event to the next.
C30_ClockStep ==
    pc' = "running"
        => /\ pc = "running" => sim'.current_time >= sim.current_time
           /\ \A e \in Events(eq') \ Events(eq) :
                 /\ e.event_type = "SERVICE_COMPLETE" => e.time > sim'.current_time
                 /\ e.event_type = "CUSTOMER_ARRIVAL" => e.time >= sim'.current_time

C30_ClockNeverDecreases == [][C30_ClockStep]_vars

-----------------------------------------------------------------------------
(* The prototype run as a script: schedule_customer_arrivals(), then        *)
(* engine.run().  The values drawn from the random module are chosen        *)
(* freely from small sets.                                                  *)

MaxProtoCustomers == 5                      \* NUM_CUSTOMERS
ProtoGaps == {0, 1}                         \* draws of the inter-arrival time
ProtoKinds == {"APPOINTMENT", "REGULAR"}    \* draws of the customer kind
ProtoPatiences == {4}                       \* draws of the patience

InitProto ==
    /\ customers = NoCustomers
    /\ eq = EventQueue_init
    /\ bq = BankQueue_init(None)
    /\ tellers = NoTellers
    /\ bank = Bank_init
    /\ trace = <<>>
    /\ now = 0
    /\ call = NoCall
    /\ drained = <<>>
    /\ sim = [current_time |-> 0, customer_id_counter |-> 0]
    /\ stats = SimulationStatistics_init
    /\ pc = "idle"
    /\ budget = 0
    /\ proto = full_sim_init
    /\ process = NoProcess

ProtoScheduleArrival ==
    /\ Len(proto.customers) < MaxProtoCustomers
    /\ \E inter \in ProtoGaps, kind \in ProtoKinds, patience \in ProtoPatiences :
          proto' = schedule_customer_arrivals_turn(proto, inter, kind, patience)
    /\ UNCHANGED <<process, simVars, bankVars, trace, call>>

\* engine.run() is called when the arrivals are scheduled; a turn of its
\* loop pops the event and calls its action
ProtoPending(action) ==
    /\ Len(proto.customers) = MaxProtoCustomers
    /\ proto.heap # <<>>
    /\ proto.heap[1].action = action

ProtoArrival ==
    /\ ProtoPending("arrival_event")
    /\ proto' \in arrival_event(SimulationEngine_run_pop(proto), proto.heap[1].cust)
    /\ UNCHANGED <<process, simVars, bankVars, trace, call>>

ProtoSwitch ==
    /\ ProtoPending("switch_action")
    /\ proto' \in switch_action(SimulationEngine_run_pop(proto), proto.heap[1].cust)
    /\ UNCHANGED <<process, simVars, bankVars, trace, call>>

ProtoAbandonment ==
    /\ ProtoPending("abandonment_action")
    /\ proto' \in abandonment_action(SimulationEngine_run_pop(proto), proto.heap[1].cust)
    /\ UNCHANGED <<process, simVars, bankVars, trace, call>>

ProtoFinish ==
    /\ ProtoPending("finish_service")
    /\ proto' \in finish_service(SimulationEngine_run_pop(proto),
                                 proto.heap[1].teller, proto.heap[1].cust)
    /\ UNCHANGED <<process, simVars, bankVars, trace, call>>

NextProto ==
    \/ ProtoScheduleArrival
    \/ ProtoArrival
    \/ ProtoSwitch
    \/ ProtoAbandonment
    \/ ProtoFinish

SpecProto == InitProto /\ [][NextProto]_vars

\* the four deques of a CustomerQueue, highest class first
Deques(q) == <<q.vip, q.elderly, q.appointments, q.regular>>

Waiting(q) == UNION {SeqSet(Deques(q)[k]) : k \in 1..4}

\* C4: whenever pop_next() returns a customer while the line holds a
\* customer upgraded by a switch attempt, the customer returned is of the
\* highest class that has a waiting customer, and no waiting customer of
\* that class has an earlier arrival_time.
C4_PopNextOrder ==
    \A i \in 1..Len(proto.pops) :
        LET p == proto.pops[i]
            ds == Deques(p.queue)
            top == CHOOSE k \in 1..4 : ds[k] # <<>> /\ \A j \in 1..(k - 1) : ds[j] = <<>>
        IN Waiting(p.queue) \cap proto.switched_once # {} =>
              /\ p.cust \in SeqSet(ds[top])
              /\ \A d \in SeqSet(ds[top]) :
                    proto.customers[p.cust].arrival_time <= proto.customers[d].arrival_time

\* the abandonment event at the head of the heap finds its customer due:
\* patience has run out, service has not started, the customer has not
\* abandoned and is still waiting
AbandonmentDue ==
    LET event == proto.heap[1]
        c == proto.customers[event.cust]
    IN /\ event.time >= c.arrival_time + c.patience
       /\ c.service_start = None
       /\ ~c.abandoned
       /\ event.cust \in Waiting(proto.queue)

C24_AbandonmentStep ==
    ProtoPending("abandonment_action") =>
        LET cust == proto.heap[1].cust
            popped == SimulationEngine_run_pop(proto)
        IN IF AbandonmentDue
           THEN /\ proto'.customers[cust].abandoned
                /\ proto'.customers[cust].service_start = None
                /\ proto'.metrics.abandoned = proto.metrics.abandoned + 1
                /\ cust \notin Waiting(proto'.queue)
           ELSE proto' = popped

C24_AbandonedOnce ==
    /\ \A c \in 1..Len(proto.customers) :
           proto.customers[c].abandoned =>
               /\ proto.customers[c].service_start = None
               /\ c \notin Waiting(proto.queue)
    /\ proto.metrics.abandoned =
           Cardinality({c \in 1..Len(proto.customers) : proto.customers[c].abandoned})

\* C24: in the prototype an abandonment event has no effect unless, when it
\* fires, current_time >= arrival_time + the customer's current patience
\* and the customer has not started service, has not abandoned and is
\* still in the line; so the event scheduled before a switch does not
\* abandon the customer whose patience the switch extended, no customer
\* abandons after starting service, and none is counted twice.
C24_AbandonmentRechecks == []C24_AbandonedOnce /\ [][C24_AbandonmentStep]_vars

\* a switched customer outlived the abandonment event scheduled at its
\* arrival and abandoned at the later one
C24_Witness ==
    \E c \in 1..Len(proto.customers) :
        /\ c \in proto.switched_once
        /\ proto.customers[c].abandoned
        /\ proto.current_time = proto.customers[c].arrival_time + proto.customers[c].patience
        /\ proto.metrics.abandoned >= 1

\* the kinds a customer may have and the times the assignment is asked at
CustomerKinds == {"VIP", "ELDERLY", "APPOINTMENT", "REGULAR"}

MaxAskTime == 16

\* the positions of the tellers that are free at current_time
FreeTellers(ts, current_time) ==
    {i \in 1..Len(ts) : ~ts[i].is_busy \/ ts[i].busy_until <= current_time}

C33_Answer(customer_time, kind) ==
    LET ts == proto.tellers
        free == FreeTellers(ts, customer_time)
        ret == TellerAssignmentSystem_assign_teller_to_priority_customer(
                   ts, customer_time, kind).ret
    IN /\ (ret = None) <=> (free = {})
       /\ ret # None =>
             /\ ret \in free
             /\ IF kind \in {"VIP", "ELDERLY", "APPOINTMENT"}
                THEN \A j \in free : ts[j].service_rate <= ts[ret].service_rate
                ELSE \A j \in free :
                        /\ ts[ret].total_busy_time <= ts[j].total_busy_time
                        /\ ts[ret].total_busy_time = ts[j].total_busy_time =>
                               ts[ret].service_rate <= ts[j].service_rate

InService(teller) ==
    {proto.heap[k].cust : k \in {j \in 1..Len(proto.heap) :
        proto.heap[j].action = "finish_service" /\ proto.heap[j].teller = teller}}

\* C39: in the prototype a teller serves at most one customer at a time: no
\* customer is assigned to a teller while the finish_service event of the
\* customer assigned to it before is still to be handled, also when
\* arrivals, abandonments and completions fall on the same timestamp.
C39_OneCustomerPerTeller ==
    \A teller \in 1..Len(proto.tellers) : Cardinality(InService(teller)) <= 1

-----------------------------------------------------------------------------
(* The prototype SimulationEngine alone: events are scheduled while no run  *)
(* is going on, and run(until_time) is called again and again.  An event's  *)
(* action is a callable the engine knows nothing of; here it only leaves a  *)
(* record (handled).  scheduled lists every event given to schedule().      *)

MaxEngineEvents == 4
EngineTimes == 1..3                     \* the times events are scheduled at
EngineUntilTimes == {1, 2, Inf}         \* the until_time of a run

SimulationEngine_init ==
    [current_time |-> 0, heap |-> <<>>, scheduled |-> <<>>, handled |-> <<>>]

\* one turn of the loop of run, with events left: the event is popped, and
\* the loop is left (broke) when its time is past until_time
SimulationEngine_run_turn(w, until_time) ==
    LET event == w.heap[1]
        popped == [w EXCEPT !.heap = heapq_heappop(SimulationEventCtx, @)]
    IN IF event.time > until_time
       THEN [w |-> popped, broke |-> TRUE]
       ELSE [w |-> [popped EXCEPT !.current_time = event.time,
                                  !.handled = Append(@, event)],
             broke |-> FALSE]

InitEngine ==
    /\ customers = NoCustomers
    /\ eq = EventQueue_init
    /\ bq = BankQueue_init(None)
    /\ tellers = NoTellers
    /\ bank = Bank_init
    /\ trace = <<>>
    /\ now = 0
    /\ call = NoCall
    /\ drained = <<>>
    /\ sim = [current_time |-> 0, customer_id_counter |-> 0]
    /\ stats = SimulationStatistics_init
    /\ pc = "idle"
    /\ budget = 0
    /\ proto = SimulationEngine_init
    /\ process = NoProcess

\* engine.schedule(time, action); the event is numbered to tell it from the
\* others
EngineSchedule ==
    /\ pc = "idle"
    /\ Len(proto.scheduled) < MaxEngineEvents
    /\ \E time \in EngineTimes :
          LET id == Len(proto.scheduled) + 1
              w == SimulationEngine_schedule(proto, time, "action", id, None)
          IN proto' = [w EXCEPT !.scheduled =
                                    Append(@, simulation_Event(time, "action", id, None))]
    /\ UNCHANGED <<process, simVars, bankVars, trace, call>>

\* engine.run(until_time) is called; trace lists the events it handles
EngineRun ==
    /\ pc = "idle"
    /\ \E until_time \in EngineUntilTimes :
          call' = [op |-> "run", until_time |-> until_time]
    /\ pc' = "running"
    /\ trace' = <<>>
    /\ UNCHANGED <<process, proto, sim, stats, budget, bankVars>>

EngineHandle ==
    /\ pc = "running"
    /\ proto.heap # <<>>
    /\ LET r == SimulationEngine_run_turn(proto, call.until_time)
       IN /\ ~r.broke
          /\ proto' = r.w
          /\ trace' = Append(trace, proto.heap[1])
    /\ UNCHANGED <<process, simVars, bankVars, call>>

EngineBreak ==
    /\ pc = "running"
    /\ proto.heap # <<>>
    /\ LET r == SimulationEngine_run_turn(proto, call.until_time)
       IN /\ r.broke
          /\ proto' = r.w
    /\ pc' = "idle"
    /\ UNCHANGED <<process, sim, stats, budget, bankVars, trace, call>>

EngineReturn ==
    /\ pc = "running"
    /\ proto.heap = <<>>
    /\ pc' = "idle"
    /\ UNCHANGED <<process, proto, sim, stats, budget, bankVars, trace, call>>

NextEngine ==
    \/ EngineSchedule
    \/ EngineRun
    \/ EngineHandle
    \/ EngineBreak
    \/ EngineReturn

SpecEngine == InitEngine /\ [][NextEngine]_vars

\* every event given to schedule() has been handled or is pending
C40_HandledOrPending ==
    \A id \in 1..Len(proto.scheduled) :
        \/ proto.scheduled[id] \in SeqSet(proto.handled)
        \/ proto.scheduled[id] \in SeqSet(proto.heap)

\* the events a run has handled are not past its until_time and were
\* handled in non-decreasing order of time
C40_InOrder ==
    /\ \A i \in 1..Len(trace) : trace[i].time <= call.until_time
    /\ \A i, j \in 1..Len(trace) : i < j => trace[i].time <= trace[j].time

\* when run returns no event with time <= until_time is pending
C40_ReturnStep ==
    (pc = "running" /\ pc' = "idle")
        => \A k \in 1..Len(proto'.heap) : proto'.heap[k].time > call.until_time

\* C40: run(until_time) handles exactly the scheduled events with time <=
\* until_time, in non-decreasing order of time, and when it returns every
\* scheduled event with time > until_time is still pending in the event
\* queue, so that each scheduled event is handled by a run or is pending
\* for a later one.
C40_RunUntil ==
    [](C40_HandledOrPending /\ C40_InOrder) /\ [][C40_ReturnStep]_vars

=============================================================================
